---- MODULE Spec2Model ----
(***************************************************************************)
(* Model of the multiplexed CDP control client (package cdp): one Client   *)
(* with its request-id counter, pending map, per-call single-slot          *)
(* channels, cancellation context, close latch, the background readLoop    *)
(* and a bounded number of concurrent SendCommand calls.                   *)
(*                                                                         *)
(* Init is the client after NewClient and a successful Connect, which is   *)
(* the only way the session manager hands a client out.                    *)
(*                                                                         *)
(* The select statement of SendCommand follows the Go runtime: on entry it *)
(* polls its cases and picks any ready one; if none is ready the goroutine *)
(* parks, and the first event that makes a case ready (a send or close on  *)
(* the channel, the timer, the cancellation) wakes it with that case.      *)
(* Critical sections of c.mu are single steps.                             *)
(***************************************************************************)
EXTENDS Integers, Sequences, FiniteSets, TLC

\* ---------------------------------------------------------------- bounds
\* Number of SendCommand calls made on the client.  Each call runs in its
\* own goroutine; the calls are numbered in the order in which they take
\* c.mu to register (the numbering is a naming of the calls only).
NumCalls == 2

Calls == 1..NumCalls

\* goroutines (HTTP handlers) calling the session manager: two, so that any
\* two calls can overlap
Workers == {1, 2}
\* CreateSession calls, and targets the browsers create, in one run
MaxCreates == 2
MaxTargets == 2
SessionIDs == 1..MaxCreates
\* the browser processes, by debugging port
Ports == {9222, 9223}

\* the debug ports of the pool, and how many processes are made
NumPorts == 2
PortRange == 9222..(9222 + NumPorts - 1)
MaxProcs == 3

\* page lists of up to MaxLen ids out of MaxLen
MaxLen == 3
PageUniverse == 1..MaxLen
PageLists == UNION {[1..n -> PageUniverse] : n \in 0..MaxLen}

\* ------------------------------------------------- wire frames and values
\* Optional values (Go pointers, omitempty fields) are sequences of length
\* at most one: << >> is nil / absent.
ErrorObjects == {[Code |-> -32000, Message |-> "boom"]}
ResultObjects == {"r1"}

FrameBodies ==
    {[result |-> <<r>>, error |-> <<>>] : r \in ResultObjects}
    \cup {[result |-> <<r>>, error |-> <<e>>] : r \in ResultObjects, e \in ErrorObjects}

NoFrame == [valid |-> FALSE, id |-> <<>>, result |-> <<>>, error |-> <<>>]

\* Inbound frames the browser can put on the socket: garbage, events (id
\* absent or zero) and responses carrying any id.
Frames ==
    {NoFrame}
    \cup {[valid |-> TRUE, id |-> i, result |-> <<>>, error |-> <<>>] :
            i \in {<<>>, <<0>>}}
    \cup {[valid |-> TRUE, id |-> <<n>>, result |-> b.result, error |-> b.error] :
            n \in Calls, b \in FrameBodies}

\* json.Unmarshal(message, &response): an absent id leaves ID at zero.
Unmarshal(f) ==
    [ok   |-> f.valid,
     resp |-> [ID     |-> IF f.id = <<>> THEN 0 ELSE f.id[1],
               Result |-> f.result,
               Error  |-> f.error]]

\* make(chan *Response, 1)
NewChan == [buf |-> <<>>, closed |-> FALSE]

Ret(kind, value) == [kind |-> kind, value |-> value]
NoRet == Ret("none", <<>>)

\* ------------------------------------------------------------ state
VARIABLES
    requestID,      \* c.requestID
    pending,        \* c.pending: request id -> channel (named by its call)
    chans,          \* responseChan of each call
    ctxDone,        \* c.ctx is cancelled
    connClosed,     \* c.conn.Close() has run
    closeState,     \* the one Close body: open/cancelled/connclosed/done
    mu,             \* c.mu: "free" or "rx" (receiver blocked while holding it)
    rx,             \* readLoop position
    rxMsg,          \* the frame readLoop holds (kept until the loop comes round)
    handled,        \* history: what handleMessage did with that frame
    pc,             \* per call: position inside SendCommand
    id,             \* per call: local id (0 before it is assigned)
    got,            \* per call: local response (<< >> is nil / none)
    result,         \* per call: what the call returned
    issued,         \* history: ids assigned, in order
    deliveredLog,   \* history: ids whose waiter was handed a response
    blockedAtClose, \* history: call was parked in select when Close cancelled
    preClose,       \* history: call started before Close completed
    rxDeadAtCall,   \* history: call started after readLoop returned on a read
                    \* error, with Close not yet called
    closeRuns,      \* history: times the body passed to closeOnce.Do started
    connCloses      \* history: times c.conn.Close() ran

\* the session manager, the browsers behind it and the goroutines calling it
VARIABLES
    sessions,        \* m.sessions: session id -> *Session (a key of sessionObjs)
    cdpClients,      \* m.cdpClients: port -> *cdp.Client (a key of clientObjs)
    mmu,             \* m.mu: 0 when free, else the worker holding the write lock
    sessionObjs,     \* the Session objects still referenced, by id
    clientObjs,      \* the cdp.Client objects still referenced: port, closed
    sessionCount,    \* ManagedProcess.sessionCount of the process on each port
    browserContexts, \* per port: the browser contexts that exist in that browser
    browserTargets,  \* per port: target id -> context id, for the open targets
                     \* (both: as far as a Session still refers to the context)
    nextSession,     \* CreateSession calls so far; the n-th generates id n
    nextTarget,      \* targets created so far by the browsers
    wpc,             \* per worker: "idle", "destroy" or "navigate"
    wsid,            \* per worker: the session its call holds
    wleft,           \* per worker: pages the range loop of DestroySession has left
    werr,            \* per worker: its DestroySession printed a CloseTarget error
    destroyedOK,     \* history: session ids for which DestroySession returned nil
    closeErrs,       \* history: those of them whose call logged a CloseTarget error
    ctxFailed,       \* history, per port, since the maps were last reset: "no"
                     \* CreateSession failed at context creation, one "failed",
                     \* or a later CreateSession on the port was "served"
    connFailed       \* history: the ports for which discovery or Connect has
                     \* failed with no client registered for the port since

\* one call of Session.RemovePage on a page list
VARIABLES
    rmList,          \* s.PageIDs
    rmPage,          \* the pageID argument
    rmIn,            \* history: s.PageIDs when the call began
    rmPC             \* "call" before the call, "returned" after it

\* the per-session operations of the manager running on the workers
VARIABLES
    opc,             \* per worker: "idle", or where its operation stands
    oarg,            \* per worker: the operation, session id and page id
    oread,           \* per worker: the s.PageIDs its AddPage / RemovePage read
    oret,            \* the request that finished last, and the response to it
    returned,        \* history: page ids a Navigate has returned
    removed          \* history: page ids a ClosePage has removed

\* the port pool and the browser processes
VARIABLES
    portPool,        \* the debug ports nobody has acquired
    procs,           \* the browser.Process objects made so far, in order
    placed           \* the port Handlers.CreateSession chose last, 0 before

\* one Session and its page-analysis cache
VARIABLES
    analyzed,        \* the Session: PageIDs and pageAnalysisCache (<< >> is nil)
    analyses,        \* history: times the analyzer script was sent to the browser
    lastCall         \* history: the last call on the Session and what it returned

cacheVars == <<analyzed, analyses, lastCall>>

\* the goroutines and the locks they take: m.mu, c.closeOnce and c.mu
VARIABLES
    goroutines       \* per goroutine: the lock operations left to do, and the locks held

lockVars == <<goroutines>>

cdpVars == <<requestID, pending, chans, ctxDone, connClosed, closeState, mu, rx,
             rxMsg, handled, pc, id, got, result, issued, deliveredLog,
             blockedAtClose, preClose, rxDeadAtCall, closeRuns, connCloses>>

mgrVars == <<sessions, cdpClients, mmu, sessionObjs, clientObjs, sessionCount,
             browserContexts, browserTargets, nextSession, nextTarget, wpc, wsid,
             wleft, werr, destroyedOK, closeErrs, ctxFailed, connFailed>>

listVars == <<rmList, rmPage, rmIn, rmPC>>

opVars == <<opc, oarg, oread, oret, returned, removed>>

poolVars == <<portPool, procs, placed>>

vars == <<cdpVars, mgrVars, listVars, opVars, poolVars, cacheVars, lockVars>>

\* what the steps of the client, and those of the manager, leave alone
outsideCdp == <<mgrVars, listVars, opVars, poolVars, cacheVars, lockVars>>
outsideMgr == <<cdpVars, listVars, opVars, poolVars, cacheVars, lockVars>>

clientVars == <<requestID, pending, chans, ctxDone, connClosed, closeState, mu>>
rxVars == <<rx, rxMsg, handled>>
callVars == <<pc, id, got, result>>
histVars == <<issued, deliveredLog, blockedAtClose, preClose, rxDeadAtCall,
              closeRuns, connCloses>>

\* NewManager; no session, no client; every browser holds only its default
\* context (not modelled), every worker is idle.
MgrInit ==
    /\ sessions = <<>>
    /\ cdpClients = <<>>
    /\ mmu = 0
    /\ sessionObjs = <<>>
    /\ clientObjs = <<>>
    /\ sessionCount = [p \in Ports |-> 0]
    /\ browserContexts = [p \in Ports |-> {}]
    /\ browserTargets = [p \in Ports |-> <<>>]
    /\ nextSession = 0
    /\ nextTarget = 0
    /\ wpc = [w \in Workers |-> "idle"]
    /\ wsid = [w \in Workers |-> 0]
    /\ wleft = [w \in Workers |-> <<>>]
    /\ werr = [w \in Workers |-> FALSE]
    /\ destroyedOK = {}
    /\ closeErrs = {}
    /\ ctxFailed = [p \in Ports |-> "no"]
    /\ connFailed = {}

\* A session's page list and a page id: the ids are the browser's target ids.
\* An id can be listed more than once only after unsynchronised AddPage and
\* RemovePage calls have overlapped; such lists are included.
ListInit ==
    /\ rmList \in PageLists
    /\ rmPage \in PageUniverse
    /\ rmIn = rmList
    /\ rmPC = "call"

\* no RemovePage call under study
NoListCall ==
    /\ rmList = <<>>
    /\ rmPage = 0
    /\ rmIn = <<>>
    /\ rmPC = "none"

\* no per-session operation has been asked for
NoRequest == [op |-> "none"]
OpInit ==
    /\ opc = [w \in Workers |-> "idle"]
    /\ oarg = [w \in Workers |-> NoRequest]
    /\ oread = [w \in Workers |-> <<>>]
    /\ oret = NoRequest
    /\ returned = {}
    /\ removed = {}

\* every port of the range is in the pool, no process has been made
PoolInit ==
    /\ portPool = PortRange
    /\ procs = <<>>
    /\ placed = 0

\* no call has been made on the Session, which has no page and no cache yet
NoAnalysis ==
    /\ analyzed = [PageIDs |-> <<>>, pageAnalysisCache |-> <<>>]
    /\ analyses = 0
    /\ lastCall = NoRequest

Goroutines == {"handler1", "handler2", "readLoop"}

\* no goroutine is inside an operation
NoGoroutines ==
    goroutines = [g \in Goroutines |-> [todo |-> <<>>, held |-> <<>>]]

\* the client after NewClient and Connect
CdpInit ==
    /\ requestID = 0
    /\ pending = <<>>
    /\ chans = [c \in Calls |-> NewChan]
    /\ ctxDone = FALSE
    /\ connClosed = FALSE
    /\ closeState = "open"
    /\ mu = "free"
    /\ rx = "loop"
    /\ rxMsg = NoFrame
    /\ handled = "none"
    /\ pc = [c \in Calls |-> "init"]
    /\ id = [c \in Calls |-> 0]
    /\ got = [c \in Calls |-> <<>>]
    /\ result = [c \in Calls |-> NoRet]
    /\ issued = <<>>
    /\ deliveredLog = <<>>
    /\ blockedAtClose = [c \in Calls |-> FALSE]
    /\ preClose = [c \in Calls |-> FALSE]
    /\ rxDeadAtCall = [c \in Calls |-> FALSE]
    /\ closeRuns = 0
    /\ connCloses = 0

Init ==
    /\ CdpInit
    /\ MgrInit
    /\ NoListCall
    /\ OpInit
    /\ PoolInit
    /\ NoAnalysis
    /\ NoGoroutines

\* ------------------------------------------------------------ helpers
MapPut(m, k, v) == [x \in DOMAIN m \cup {k} |-> IF x = k THEN v ELSE m[x]]
MapDelete(m, k) == [x \in DOMAIN m \ {k} |-> m[x]]
Range(f) == {f[x] : x \in DOMAIN f}
\* least key, used by the faulty variants of LookupWaiter
MinOf(S) == CHOOSE x \in S : \A y \in S : x <= y

Returned(c) == pc[c] = "done"
InProgress(c) == pc[c] \notin {"init", "done"}

\* c.requestID++
IncrementRequestID_lost(r) == r
IncrementRequestID(r) == r + 1

\* id := c.requestID (read after the increment)
AssignID_before(r) == r - 1
AssignID(r) == r

\* ch, exists := c.pending[response.ID]
LookupWaiter_anykey(p, rid) ==
    IF DOMAIN p # {} THEN <<p[MinOf(DOMAIN p)]>> ELSE <<>>
LookupWaiter_fallback(p, rid) ==
    IF rid \in DOMAIN p THEN <<p[rid]>>
    ELSE IF DOMAIN p # {} THEN <<p[MinOf(DOMAIN p)]>> ELSE <<>>
LookupWaiter(p, rid) == IF rid \in DOMAIN p THEN <<p[rid]>> ELSE <<>>

\* delete(c.pending, response.ID) at the end of handleResponse
PendingAfterResponse_keep(p, rid) == p
PendingAfterResponse(p, rid) == MapDelete(p, rid)

\* delete(c.pending, id) in the timeout branch
PendingAfterTimeout_keep(p, k) == p
PendingAfterTimeout(p, k) == MapDelete(p, k)

\* ch <- response with no receiver parked on ch: the send goes into the buffer
\* of make(chan *Response, 1) when its one slot is empty, and blocks otherwise
\* (an unbuffered channel would have no slot)
SlotFree_unbuffered(q) == FALSE
SlotFree(q) == Len(q.buf) < 1

\* delete(c.pending, id) for every entry, in the loop of Close
PendingAfterClose_keep(p) == p
PendingAfterClose(p) == <<>>

\* c.cancel()
Cancel_skip(done) == done
Cancel(done) == TRUE

\* case response := <-responseChan.  r is what the receive yielded: << >>
\* (nil, from a closed channel) makes response.Error a nil dereference and
\* the panic unwinds the call; otherwise the error field decides.
ResponseToReturn_ignoreError(r) ==
    IF r = <<>> THEN Ret("panic", <<>>) ELSE Ret("result", r[1].Result)
ResponseToReturn(r) ==
    IF r = <<>> THEN Ret("panic", <<>>)
    ELSE IF r[1].Error # <<>>
    THEN Ret("remote", <<"CDP error", r[1].Error[1].Message, r[1].Error[1].Code>>)
    ELSE Ret("result", r[1].Result)

\* ------------------------------------------------------------ SendCommand
\* A goroutine enters SendCommand; it has not taken c.mu yet.
SendCommandCall(c) ==
    /\ pc[c] = "init"
    /\ pc' = [pc EXCEPT ![c] = "lock"]
    /\ preClose' = [preClose EXCEPT ![c] = (closeState # "done")]
    /\ rxDeadAtCall' = [rxDeadAtCall EXCEPT
                           ![c] = (rx = "stopped" /\ closeState = "open")]
    /\ UNCHANGED <<clientVars, rxVars, id, got, result, issued, deliveredLog,
                   blockedAtClose, closeRuns, connCloses>>
    /\ UNCHANGED outsideCdp

\* Lock; requestID++; id; make channel; pending[id] = channel; Unlock;
\* build and marshal the command (a marshal error returns at once).
SendCommandRegister(c, marshalable) ==
    /\ pc[c] = "lock"
    /\ \A d \in Calls : d < c => pc[d] \notin {"init", "lock"}
    /\ mu = "free"
    /\ LET r == IncrementRequestID(requestID)
           k == AssignID(r)
       IN  /\ requestID' = r
           /\ chans' = [chans EXCEPT ![c] = NewChan]
           /\ pending' = MapPut(pending, k, c)
           /\ id' = [id EXCEPT ![c] = k]
           /\ issued' = Append(issued, k)
    /\ IF marshalable
       THEN /\ pc' = [pc EXCEPT ![c] = "write"]
            /\ result' = result
       ELSE /\ pc' = [pc EXCEPT ![c] = "done"]
            /\ result' = [result EXCEPT ![c] = Ret("marshal", <<>>)]
    /\ UNCHANGED <<ctxDone, connClosed, closeState, mu, rxVars, got,
                   deliveredLog, blockedAtClose, preClose, rxDeadAtCall,
                   closeRuns, connCloses>>
    /\ UNCHANGED outsideCdp

\* c.conn.WriteMessage: fails on a closed connection, may fail on any other.
SendCommandWrite(c, fails) ==
    /\ pc[c] = "write"
    /\ connClosed => fails
    /\ pc' = [pc EXCEPT ![c] = IF fails THEN "writefailed" ELSE "select"]
    /\ UNCHANGED <<clientVars, rxVars, id, got, result, histVars>>
    /\ UNCHANGED outsideCdp

\* Write error: Lock; delete(pending, id); Unlock; return the error.
SendCommandWriteFailed(c) ==
    /\ pc[c] = "writefailed"
    /\ mu = "free"
    /\ pending' = MapDelete(pending, id[c])
    /\ pc' = [pc EXCEPT ![c] = "done"]
    /\ result' = [result EXCEPT ![c] = Ret("transport", <<>>)]
    /\ UNCHANGED <<requestID, chans, ctxDone, connClosed, closeState, mu,
                   rxVars, id, got, histVars>>
    /\ UNCHANGED outsideCdp

\* Entering the select: take any case that is ready (and run its branch,
\* which touches no shared state), otherwise park.
SendCommandSelect(c) ==
    /\ pc[c] = "select"
    /\ LET q == chans[c]
           chReady == q.buf # <<>> \/ q.closed
       IN  \/ /\ chReady
              /\ got' = [got EXCEPT ![c] = q.buf]
              /\ chans' = [chans EXCEPT ![c].buf = <<>>]
              /\ result' = [result EXCEPT ![c] = ResponseToReturn(q.buf)]
              /\ pc' = [pc EXCEPT ![c] = "done"]
           \/ /\ ctxDone
              /\ result' = [result EXCEPT ![c] = Ret("closed", <<>>)]
              /\ pc' = [pc EXCEPT ![c] = "done"]
              /\ UNCHANGED <<got, chans>>
           \/ /\ ~chReady
              /\ ~ctxDone
              /\ pc' = [pc EXCEPT ![c] = "parked"]
              /\ UNCHANGED <<got, chans, result>>
    /\ UNCHANGED <<requestID, pending, ctxDone, connClosed, closeState, mu,
                   rxVars, id, histVars>>
    /\ UNCHANGED outsideCdp

\* time.After(10 * time.Second) fires for a parked call.
TimerFires(c) ==
    /\ pc[c] = "parked"
    /\ pc' = [pc EXCEPT ![c] = "case_timeout"]
    /\ UNCHANGED <<clientVars, rxVars, id, got, result, histVars>>
    /\ UNCHANGED outsideCdp

\* case <-time.After: Lock; delete(pending, id); Unlock; return timeout.
SendCommandOnTimeout(c) ==
    /\ pc[c] = "case_timeout"
    /\ mu = "free"
    /\ pending' = PendingAfterTimeout(pending, id[c])
    /\ pc' = [pc EXCEPT ![c] = "done"]
    /\ result' = [result EXCEPT ![c] = Ret("timeout", <<>>)]
    /\ UNCHANGED <<requestID, chans, ctxDone, connClosed, closeState, mu,
                   rxVars, id, got, histVars>>
    /\ UNCHANGED outsideCdp

\* ------------------------------------------------------------ readLoop
\* Top of the for loop: select on ctx.Done with a default.
ReadLoopCheck ==
    /\ rx = "loop"
    /\ rx' = IF ctxDone THEN "stopped" ELSE "reading"
    /\ rxMsg' = NoFrame
    /\ handled' = "none"
    /\ UNCHANGED <<clientVars, callVars, histVars>>
    /\ UNCHANGED outsideCdp

\* c.conn.ReadMessage() returns a frame.
ReadMessage(f) ==
    /\ rx = "reading"
    /\ ~connClosed
    /\ rx' = "handle"
    /\ rxMsg' = f
    /\ UNCHANGED <<handled, clientVars, callVars, histVars>>
    /\ UNCHANGED outsideCdp

\* c.conn.ReadMessage() returns an error: the loop returns either way.
ReadError ==
    /\ rx = "reading"
    /\ rx' = "stopped"
    /\ UNCHANGED <<rxMsg, handled, clientVars, callVars, histVars>>
    /\ UNCHANGED outsideCdp

\* handleResponse, under c.mu: look the waiter up, send, delete.
HandleResponse(resp) ==
    LET w == LookupWaiter(pending, resp.ID)
    IN  IF w = <<>>
        THEN \* unknown request id: warn and drop
             /\ rx' = "loop"
             /\ handled' = "dropped"
             /\ UNCHANGED <<pending, chans, mu, pc, got, result, deliveredLog>>
        ELSE LET n == w[1]
             IN  IF chans[n].closed
                 THEN \* send on a closed channel panics (deferred Unlock runs)
                      /\ rx' = "panicked"
                      /\ handled' = "none"
                      /\ UNCHANGED <<pending, chans, mu, pc, got, result,
                                     deliveredLog>>
                 ELSE IF pc[n] = "parked"
                 THEN \* the parked receiver takes the value and runs its branch
                      /\ got' = [got EXCEPT ![n] = <<resp>>]
                      /\ result' = [result EXCEPT ![n] = ResponseToReturn(<<resp>>)]
                      /\ pc' = [pc EXCEPT ![n] = "done"]
                      /\ pending' = PendingAfterResponse(pending, resp.ID)
                      /\ deliveredLog' = Append(deliveredLog, resp.ID)
                      /\ rx' = "loop"
                      /\ handled' = "delivered"
                      /\ UNCHANGED <<chans, mu>>
                 ELSE IF SlotFree(chans[n])
                 THEN \* the single slot is free
                      /\ chans' = [chans EXCEPT ![n].buf = <<resp>>]
                      /\ pending' = PendingAfterResponse(pending, resp.ID)
                      /\ deliveredLog' = Append(deliveredLog, resp.ID)
                      /\ rx' = "loop"
                      /\ handled' = "delivered"
                      /\ UNCHANGED <<mu, pc, got, result>>
                 ELSE \* slot full and nobody receiving: blocks holding c.mu
                      /\ rx' = "blocked"
                      /\ handled' = "none"
                      /\ mu' = "rx"
                      /\ UNCHANGED <<pending, chans, pc, got, result,
                                     deliveredLog>>

\* handleMessage: unmarshal; non-zero id is a response, otherwise an event.
HandleMessage ==
    /\ rx = "handle"
    /\ LET u == Unmarshal(rxMsg)
       IN  IF ~u.ok
           THEN /\ rx' = "loop"
                /\ handled' = "garbage"
                /\ UNCHANGED <<pending, chans, mu, pc, got, result, deliveredLog>>
           ELSE IF u.resp.ID # 0
           THEN /\ mu = "free"
                /\ HandleResponse(u.resp)
           ELSE \* handleEvent: log only
                /\ rx' = "loop"
                /\ handled' = "event"
                /\ UNCHANGED <<pending, chans, mu, pc, got, result, deliveredLog>>
    /\ rxMsg' = rxMsg
    /\ UNCHANGED <<requestID, ctxDone, connClosed, closeState, id, issued,
                   blockedAtClose, preClose, rxDeadAtCall, closeRuns,
                   connCloses>>
    /\ UNCHANGED outsideCdp

\* ------------------------------------------------------------ Close
\* closeOnce.Do(f): f runs only for the call that finds the Once unfired.
OnceFirst_always(s) == s \in {"open", "done"}
OnceFirst(s) == s = "open"

\* closeOnce.Do entered by the first Close: c.cancel().  Closing the Done
\* channel wakes every call parked in its select with the Done case, whose
\* branch returns "client closed".
CloseCancel ==
    /\ OnceFirst(closeState)
    /\ closeState' = "cancelled"
    /\ closeRuns' = closeRuns + 1
    /\ ctxDone' = Cancel(ctxDone)
    /\ blockedAtClose' = [c \in Calls |-> pc[c] = "parked"]
    /\ LET woken == {c \in Calls : pc[c] = "parked" /\ ctxDone' /\ ~ctxDone}
       IN  /\ pc' = [c \in Calls |-> IF c \in woken THEN "done" ELSE pc[c]]
           /\ result' = [c \in Calls |->
                           IF c \in woken THEN Ret("closed", <<>>) ELSE result[c]]
    /\ UNCHANGED <<requestID, pending, chans, connClosed, mu, rxVars, id, got,
                   issued, deliveredLog, preClose, rxDeadAtCall, connCloses>>
    /\ UNCHANGED outsideCdp

\* c.conn.Close()
CloseConn ==
    /\ closeState = "cancelled"
    /\ closeState' = "connclosed"
    /\ connClosed' = TRUE
    /\ connCloses' = connCloses + 1
    /\ UNCHANGED <<requestID, pending, chans, ctxDone, mu, rxVars, callVars,
                   issued, deliveredLog, blockedAtClose, preClose, rxDeadAtCall,
                   closeRuns>>
    /\ UNCHANGED outsideCdp

\* Lock; for every pending entry: close(ch), delete; Unlock.  A call still
\* parked on one of the channels is woken with a nil response.
ClosePending ==
    /\ closeState = "connclosed"
    /\ mu = "free"
    /\ LET open == Range(pending)
           woken == {c \in Calls : pc[c] = "parked" /\ c \in open}
       IN  IF \E n \in open : chans[n].closed
           THEN \* close of a closed channel panics
                /\ closeState' = "panicked"
                /\ UNCHANGED <<pending, chans, pc, got, result>>
           ELSE /\ closeState' = "done"
                /\ chans' = [n \in Calls |->
                               IF n \in open
                               THEN [chans[n] EXCEPT !.closed = TRUE]
                               ELSE chans[n]]
                /\ pending' = PendingAfterClose(pending)
                /\ pc' = [c \in Calls |-> IF c \in woken THEN "done" ELSE pc[c]]
                /\ result' = [c \in Calls |->
                                IF c \in woken THEN ResponseToReturn(<<>>)
                                ELSE result[c]]
                /\ got' = got
    /\ UNCHANGED <<requestID, ctxDone, connClosed, mu, rxVars, id, histVars>>
    /\ UNCHANGED outsideCdp

\* A Close call made after closeOnce has fired and its body has finished:
\* Do runs nothing and Close returns a nil error, so no variable changes.
CloseAgain ==
    /\ ~OnceFirst(closeState)
    /\ closeState = "done"
    /\ UNCHANGED vars

\* ------------------------------------------------------------ specification
Next ==
    \/ \E c \in Calls : SendCommandCall(c)
    \/ \E c \in Calls, m \in BOOLEAN : SendCommandRegister(c, m)
    \/ \E c \in Calls, fails \in BOOLEAN : SendCommandWrite(c, fails)
    \/ \E c \in Calls : SendCommandWriteFailed(c)
    \/ \E c \in Calls : SendCommandSelect(c)
    \/ \E c \in Calls : TimerFires(c)
    \/ \E c \in Calls : SendCommandOnTimeout(c)
    \/ ReadLoopCheck
    \/ \E f \in Frames : ReadMessage(f)
    \/ ReadError
    \/ HandleMessage
    \/ CloseCancel
    \/ CloseConn
    \/ ClosePending
    \/ CloseAgain

Spec == Init /\ [][Next]_vars

TypeOK ==
    /\ requestID \in 0..NumCalls
    /\ DOMAIN pending \subseteq 0..NumCalls
    /\ \A k \in DOMAIN pending : pending[k] \in Calls
    /\ mu \in {"free", "rx"}
    /\ rx \in {"loop", "reading", "handle", "stopped", "blocked", "panicked"}
    /\ rxMsg \in Frames
    /\ closeState \in {"open", "cancelled", "connclosed", "done", "panicked"}
    /\ \A c \in Calls :
          pc[c] \in {"init", "lock", "write", "writefailed", "select", "parked",
                     "case_timeout", "done"}

\* ------------------------------------------------------------ session manager
\* How a browser command that removes something can end for its caller:
\* "ok" the browser did it and the result came back; "fail" the browser did
\* not do it and an error came back (remote error, write failure, timeout,
\* closed client); "lost" the browser did it but the caller got an error
\* (the response came after the timeout or was never read).  For a command
\* that creates something "lost" leaves an object no session refers to, which
\* is not tracked, so it counts as "fail".
Outcomes == {"ok", "fail", "lost"}
CreateOutcomes == {"ok", "fail"}
BrowserDid(out) == out \in {"ok", "lost"}

\* the error text of a failed lookup, as the DELETE handler compares it
NotFound == "session not found"

\* session, exists := m.sessions[sessionID]
SessionExists(m, sid) == sid \in DOMAIN m

\* GetSession under the read lock, with the status the GET handler writes
GetSession(sid) ==
    IF SessionExists(sessions, sid)
    THEN [err |-> "", session |-> sessions[sid], status |-> 200]
    ELSE [err |-> NotFound, session |-> 0, status |-> 404]

\* ListSessions under the read lock: the sessions in the map
ListSessions == {sessions[sid] : sid \in DOMAIN sessions}

\* ManagedProcess.IncrementSessionCount / DecrementSessionCount: the only
\* writers of sessionCount.  No code of the manager or the handlers calls them.
IncrementSessionCount(n) == n + 1
DecrementSessionCount(n) == n - 1

\* client, exists := m.cdpClients[port]
ClientExists_never(m, port) == FALSE
ClientExists(m, port) == port \in DOMAIN m

\* if err != nil { return nil, ... } after GetWebSocketURL and after Connect
ConnectFailed_ignored(connects) == FALSE
ConnectFailed(connects) == ~connects

\* m.cdpClients[port] = client
RegisterClient_skip(m, port, client) == m
RegisterClient(m, port, client) == MapPut(m, port, client)

\* session := &Session{...}
NewSession_portContext(sid, port, contextID, client) ==
    [ID |-> sid, ProcessPort |-> port, ContextID |-> port, PageIDs |-> <<>>,
     CDPClient |-> client, Status |-> "active"]
NewSession_expired(sid, port, contextID, client) ==
    [ID |-> sid, ProcessPort |-> port, ContextID |-> contextID, PageIDs |-> <<>>,
     CDPClient |-> client, Status |-> "expired"]
NewSession(sid, port, contextID, client) ==
    [ID |-> sid, ProcessPort |-> port, ContextID |-> contextID, PageIDs |-> <<>>,
     CDPClient |-> client, Status |-> "active"]

\* Session.AddPage
AddPage(s, pageID) == [s EXCEPT !.PageIDs = Append(@, pageID)]

\* if err := ...DisposeBrowserContext(...); err != nil { return ... }
DisposeFailed_ignored(out) == FALSE
DisposeFailed(out) == out # "ok"

\* delete(m.sessions, sessionID)
SessionsAfterDestroy_keep(m, sid) == m
SessionsAfterDestroy(m, sid) == MapDelete(m, sid)

\* the DELETE handler: nil -> 204, the not-found text -> 404, else 500
DestroyStatus(err) ==
    IF err = "" THEN 204
    ELSE IF err = NotFound THEN 404 ELSE 500

\* What DestroySession(sid) returns when it finds no such session, having
\* done nothing else; << >> when it finds one and goes on.
DestroyLookup(m, sid) ==
    IF SessionExists(m, sid) THEN <<>> ELSE <<NotFound>>

\* The idle workers are alike: a new call is taken by the first of them.
TakesCall(w) ==
    /\ wpc[w] = "idle"
    /\ \A v \in Workers : v < w => wpc[v] # "idle"

\* Objects nothing refers to any more are dropped (garbage collection): a
\* Session is referred to by m.sessions and by the calls holding it, a Client
\* by m.cdpClients and by the Sessions.
Collect(objs, live) == [x \in DOMAIN objs \cap live |-> objs[x]]
LiveSessions(m, held) == Range(m) \cup (Range(held) \ {0})
LiveClients(m, objs) == Range(m) \cup {objs[x].CDPClient : x \in DOMAIN objs}

\* A browser context is reached only through the ContextID of a Session: one
\* that no Session refers to any more (its sessions were dropped by
\* Manager.Close) stays in the browser for good and is left out from then on,
\* with its targets.
LiveContexts(objs, port) ==
    {objs[x].ContextID : x \in {y \in DOMAIN objs : objs[y].ProcessPort = port}}
KeepContexts(ctxs, objs) ==
    [p \in Ports |-> ctxs[p] \cap LiveContexts(objs, p)]
KeepTargets(tgts, objs) ==
    [p \in Ports |->
        [t \in {x \in DOMAIN tgts[p] : tgts[p][x] \in LiveContexts(objs, p)}
            |-> tgts[p][t]]]

\* NewClient: a fresh object, told from the live ones by its address
NewClientRef(objs) ==
    CHOOSE c \in 1..(Cardinality(DOMAIN objs) + 1) : c \notin DOMAIN objs

\* Manager.CreateSession(port), the whole call: m.mu is held from the first
\* line to the return.  connects: discovery and Connect succeed for a new
\* client; out: how Target.createBrowserContext ends.  The session id is
\* random and the context id is the browser's: both are fresh.
CreateSession(w, port, connects, out) ==
    /\ TakesCall(w)
    /\ mmu = 0
    /\ nextSession < MaxCreates
    /\ LET sid == nextSession + 1
           exists == ClientExists(cdpClients, port)
           client == IF exists THEN cdpClients[port] ELSE NewClientRef(clientObjs)
       IN  /\ exists => connects
           /\ nextSession' = sid
           /\ connFailed' = IF exists THEN connFailed
                            ELSE IF connects THEN connFailed \ {port}
                            ELSE connFailed \cup {port}
           /\ IF ConnectFailed(connects)
              THEN UNCHANGED <<sessions, cdpClients, sessionObjs, clientObjs,
                               browserContexts, ctxFailed>>
              ELSE /\ cdpClients' = IF exists THEN cdpClients
                                    ELSE RegisterClient(cdpClients, port, client)
                   /\ clientObjs' = IF exists THEN clientObjs
                                    ELSE MapPut(clientObjs, client,
                                                [port |-> port, closed |-> FALSE])
                   /\ IF out = "ok"
                      THEN /\ browserContexts' =
                                [browserContexts EXCEPT ![port] = @ \cup {sid}]
                           /\ sessionObjs' = MapPut(sessionObjs, sid,
                                                    NewSession(sid, port, sid, client))
                           /\ sessions' = MapPut(sessions, sid, sid)
                           /\ ctxFailed' =
                                IF ctxFailed[port] = "failed"
                                THEN [ctxFailed EXCEPT ![port] = "served"]
                                ELSE ctxFailed
                      ELSE /\ ctxFailed' = [ctxFailed EXCEPT ![port] = "failed"]
                           /\ UNCHANGED <<sessions, sessionObjs, browserContexts>>
    /\ UNCHANGED <<mmu, sessionCount, browserTargets, nextTarget, wpc, wsid,
                   wleft, werr, destroyedOK, closeErrs>>
    /\ UNCHANGED outsideMgr

\* Manager.DestroySession(sessionID) up to the range loop: Lock, look the
\* session up; not found returns at once, otherwise the loop starts over
\* session.PageIDs as it is now.
DestroySessionBegin(w, sid) ==
    /\ TakesCall(w)
    /\ mmu = 0
    /\ IF DestroyLookup(sessions, sid) # <<>>
       THEN UNCHANGED <<mmu, wpc, wsid, wleft>>
       ELSE /\ mmu' = w
            /\ wpc' = [wpc EXCEPT ![w] = "destroy"]
            /\ wsid' = [wsid EXCEPT ![w] = sessions[sid]]
            /\ wleft' = [wleft EXCEPT ![w] = sessionObjs[sessions[sid]].PageIDs]
    /\ UNCHANGED <<sessions, cdpClients, sessionObjs, clientObjs, sessionCount,
                   browserContexts, browserTargets, nextSession, nextTarget,
                   werr, destroyedOK, closeErrs, ctxFailed>>
    /\ UNCHANGED connFailed
    /\ UNCHANGED outsideMgr

\* One round of the loop: session.CDPClient.CloseTarget(pageID); an error is
\* printed and the loop goes on.  The browser can close only a target it has.
DestroyCloseTarget(w, out) ==
    /\ wpc[w] = "destroy"
    /\ wleft[w] # <<>>
    /\ LET s == sessionObjs[wsid[w]]
           port == clientObjs[s.CDPClient].port
           pageID == Head(wleft[w])
       IN  /\ BrowserDid(out) => pageID \in DOMAIN browserTargets[port]
           /\ browserTargets' =
                IF BrowserDid(out)
                THEN [browserTargets EXCEPT ![port] = MapDelete(@, pageID)]
                ELSE browserTargets
    /\ werr' = [werr EXCEPT ![w] = @ \/ out # "ok"]
    /\ wleft' = [wleft EXCEPT ![w] = Tail(@)]
    /\ UNCHANGED <<sessions, cdpClients, mmu, sessionObjs, clientObjs,
                   sessionCount, browserContexts, nextSession, nextTarget, wpc,
                   wsid, destroyedOK, closeErrs, ctxFailed>>
    /\ UNCHANGED connFailed
    /\ UNCHANGED outsideMgr

\* After the loop: DisposeBrowserContext; an error returns it with the session
\* left as it is; otherwise Status = closed, delete from the map, return nil.
\* Disposing a context closes the targets that are in it.
DestroyDispose(w, out) ==
    /\ wpc[w] = "destroy"
    /\ wleft[w] = <<>>
    /\ LET s == sessionObjs[wsid[w]]
           port == clientObjs[s.CDPClient].port
       IN  /\ BrowserDid(out) => s.ContextID \in browserContexts[port]
           /\ IF BrowserDid(out)
              THEN /\ browserContexts' =
                        [browserContexts EXCEPT ![port] = @ \ {s.ContextID}]
                   /\ browserTargets' =
                        [browserTargets EXCEPT ![port] =
                            [t \in {x \in DOMAIN @ : @[x] # s.ContextID} |-> @[t]]]
              ELSE UNCHANGED <<browserContexts, browserTargets>>
           /\ wsid' = [wsid EXCEPT ![w] = 0]
           /\ IF DisposeFailed(out)
              THEN UNCHANGED <<sessions, sessionObjs, destroyedOK, closeErrs>>
              ELSE /\ sessions' = SessionsAfterDestroy(sessions, s.ID)
                   /\ sessionObjs' =
                        Collect([sessionObjs EXCEPT ![s.ID].Status = "closed"],
                                LiveSessions(sessions', wsid'))
                   /\ destroyedOK' = destroyedOK \cup {s.ID}
                   /\ closeErrs' = IF werr[w] THEN closeErrs \cup {s.ID}
                                   ELSE closeErrs
    /\ mmu' = 0
    /\ wpc' = [wpc EXCEPT ![w] = "idle"]
    /\ werr' = [werr EXCEPT ![w] = FALSE]
    /\ UNCHANGED <<cdpClients, clientObjs, sessionCount, nextSession, nextTarget,
                   wleft, ctxFailed>>
    /\ UNCHANGED connFailed
    /\ UNCHANGED outsideMgr

\* client.Close() in the loop of Manager.Close: the client is closed whether
\* or not closing its connection returned an error, which is only printed
ClosedClient_skip(c) == c
ClosedClient(c) == [c EXCEPT !.closed = TRUE]

\* Manager.Close, the whole call under m.mu: Close every client, then replace
\* both maps by empty ones.
ManagerClose(w) ==
    /\ TakesCall(w)
    /\ mmu = 0
    /\ sessions' = <<>>
    /\ cdpClients' = <<>>
    /\ sessionObjs' = Collect(sessionObjs, LiveSessions(sessions', wsid))
    /\ clientObjs' =
         Collect([c \in DOMAIN clientObjs |->
                     IF c \in Range(cdpClients)
                     THEN ClosedClient(clientObjs[c])
                     ELSE clientObjs[c]],
                 LiveClients(cdpClients', sessionObjs'))
    /\ browserContexts' = KeepContexts(browserContexts, sessionObjs')
    /\ browserTargets' = KeepTargets(browserTargets, sessionObjs')
    /\ ctxFailed' = [p \in Ports |-> "no"]
    /\ UNCHANGED <<mmu, sessionCount, nextSession, nextTarget, wpc, wsid, wleft,
                   werr, destroyedOK, closeErrs>>
    /\ connFailed' = {}
    /\ UNCHANGED outsideMgr

\* Manager.Navigate(sessionID, url), first half: GetSession under the read
\* lock; the call keeps the *Session and lets the lock go.  Not found returns.
NavigateBegin(w, sid) ==
    /\ TakesCall(w)
    /\ mmu = 0
    /\ IF GetSession(sid).err # ""
       THEN UNCHANGED <<wpc, wsid>>
       ELSE /\ wpc' = [wpc EXCEPT ![w] = "navigate"]
            /\ wsid' = [wsid EXCEPT ![w] = GetSession(sid).session]
    /\ UNCHANGED <<sessions, cdpClients, mmu, sessionObjs, clientObjs,
                   sessionCount, browserContexts, browserTargets, nextSession,
                   nextTarget, wleft, werr, destroyedOK, closeErrs, ctxFailed>>
    /\ UNCHANGED connFailed
    /\ UNCHANGED outsideMgr

\* Second half, without m.mu: CreateTarget(url, session.ContextID) on the
\* session's client, then session.AddPage(targetID).  The browser creates the
\* target only in a context it has, and a closed client delivers no result.
NavigateCreateTarget(w, out) ==
    /\ wpc[w] = "navigate"
    /\ LET s == sessionObjs[wsid[w]]
           port == clientObjs[s.CDPClient].port
           t == nextTarget + 1
       IN  /\ out = "ok" => /\ nextTarget < MaxTargets
                            /\ s.ContextID \in browserContexts[port]
                            /\ ~clientObjs[s.CDPClient].closed
           /\ wsid' = [wsid EXCEPT ![w] = 0]
           /\ nextTarget' = IF out = "ok" THEN t ELSE nextTarget
           /\ sessionObjs' =
                Collect(IF out = "ok"
                        THEN [sessionObjs EXCEPT ![s.ID] = AddPage(s, t)]
                        ELSE sessionObjs,
                        LiveSessions(sessions, wsid'))
           /\ clientObjs' = Collect(clientObjs, LiveClients(cdpClients, sessionObjs'))
           /\ browserContexts' = KeepContexts(browserContexts, sessionObjs')
           /\ browserTargets' =
                KeepTargets(IF out = "ok"
                            THEN [browserTargets EXCEPT
                                     ![port] = MapPut(@, t, s.ContextID)]
                            ELSE browserTargets,
                            sessionObjs')
    /\ wpc' = [wpc EXCEPT ![w] = "idle"]
    /\ UNCHANGED <<sessions, cdpClients, mmu, sessionCount, nextSession, wleft,
                   werr, destroyedOK, closeErrs, ctxFailed>>
    /\ UNCHANGED connFailed
    /\ UNCHANGED outsideMgr

MgrNext ==
    \/ \E w \in Workers, port \in Ports, connects \in BOOLEAN,
          out \in CreateOutcomes : CreateSession(w, port, connects, out)
    \/ \E w \in Workers, sid \in SessionIDs : DestroySessionBegin(w, sid)
    \/ \E w \in Workers, out \in Outcomes : DestroyCloseTarget(w, out)
    \/ \E w \in Workers, out \in Outcomes : DestroyDispose(w, out)
    \/ \E w \in Workers : ManagerClose(w)
    \/ \E w \in Workers, sid \in SessionIDs : NavigateBegin(w, sid)
    \/ \E w \in Workers, out \in CreateOutcomes : NavigateCreateTarget(w, out)

\* the manager and its callers alone; the one client of the first part stays
\* as constructed
MgrSpec == Init /\ [][MgrNext]_vars

MgrTypeOK ==
    /\ DOMAIN sessions \subseteq SessionIDs
    /\ DOMAIN cdpClients \subseteq Ports
    /\ mmu \in {0} \cup Workers
    /\ nextSession \in 0..MaxCreates
    /\ nextTarget \in 0..MaxTargets
    /\ \A w \in Workers : wpc[w] \in {"idle", "destroy", "navigate"}
    /\ \A p \in Ports : sessionCount[p] \in Int

\* ------------------------------------------------------------ properties
RxID == Unmarshal(rxMsg).resp.ID
RxIsEvent == Unmarshal(rxMsg).ok /\ RxID = 0
RxIsResponse == Unmarshal(rxMsg).ok /\ RxID # 0
\* the step in which handleMessage deals with the frame in hand
HandleStep == rx = "handle" /\ rx' # "handle"
Delivered == Range(deliveredLog)

\* C1: the request ids assigned by concurrent SendCommand calls are pairwise
\* distinct, start at 1, and each is greater than every id assigned before.
C1_IdsUniqueIncreasing ==
    /\ issued # <<>> => issued[1] = 1
    /\ \A i, j \in 1..Len(issued) : i < j => issued[i] < issued[j]

\* two calls in flight at once, both holding ids
C1_Witness ==
    /\ Len(issued) >= 2
    /\ \E c, d \in Calls : c # d /\ InProgress(c) /\ InProgress(d)
                           /\ id[c] # 0 /\ id[d] # 0

\* C2: a call that registered id k only ever receives, and returns the
\* result or error of, a frame whose id is k.
C2_ResponseMatchesId ==
    \A c \in Calls :
        /\ got[c] # <<>> => got[c][1].ID = id[c]
        /\ chans[c].buf # <<>> => chans[c].buf[1].ID = id[c]
        /\ Returned(c) /\ result[c].kind \in {"result", "remote"}
              => got[c] # <<>> /\ got[c][1].ID = id[c]

\* responses out of order: the later request is answered while the earlier
\* one is still waiting
C2_Witness ==
    \E c, d \in Calls :
        /\ id[c] # 0 /\ id[c] < id[d]
        /\ pc[c] = "parked"
        /\ Returned(d) /\ result[d].kind = "result"

\* C3: a call parked in its select when Close cancels the context returns
\* "client closed": no result, no panic, no further waiting.
C3_BlockedCallsSeeClosed ==
    \A c \in Calls :
        blockedAtClose[c] => Returned(c) /\ result[c].kind = "closed"

C3_Witness ==
    /\ closeState = "done"
    /\ \A c \in Calls : blockedAtClose[c] /\ result[c].kind = "closed"

\* C4 (as claimed): whenever no SendCommand call is in progress the pending
\* map is empty.
C4_AsClaimed ==
    (\A c \in Calls : ~InProgress(c)) => DOMAIN pending = {}

\* C5 (as claimed): once Close has completed and every call started before
\* that has returned (no other call having been started), the pending map
\* is empty and each of those calls came back from SendCommand with a value
\* (it did not crash).
C5_AsClaimed ==
    (/\ closeState = "done"
     /\ \A c \in Calls : pc[c] = "init" \/ (preClose[c] /\ Returned(c)))
    => /\ DOMAIN pending = {}
       /\ \A c \in Calls : Returned(c) => result[c].kind # "panic"

\* C6: for each request id at most one response is ever handed to a waiter;
\* a further frame with that id is dropped.
C6_AtMostOneDelivery ==
    \A i, j \in 1..Len(deliveredLog) : i # j => deliveredLog[i] # deliveredLog[j]

\* a second frame for an id already answered has just been dropped
C6_Witness ==
    /\ rx = "loop"
    /\ handled = "dropped"
    /\ RxID \in Delivered

\* C7: a frame whose id is absent or zero never unblocks a call and never
\* changes the pending map, and no request is ever issued with id 0.
C7_EventsNeverSatisfyWaiters ==
    /\ [][HandleStep /\ RxIsEvent
            => /\ rx' = "loop"
               /\ UNCHANGED <<pending, chans, pc, got, result, deliveredLog, mu>>]_vars
    /\ [](\A i \in 1..Len(issued) : issued[i] # 0)

\* an event (id zero) has been handled while a call is parked on its waiter
C7_Witness ==
    /\ rx = "loop"
    /\ handled = "event"
    /\ rxMsg.id = <<0>>
    /\ \E c \in Calls : pc[c] = "parked" /\ id[c] \in DOMAIN pending

\* C8: a call that returns the timeout error has had no response handed to
\* it, and its id is no longer in the pending map.
C8_TimeoutRemovesWaiter ==
    \A c \in Calls :
        Returned(c) /\ result[c].kind = "timeout"
            => id[c] \notin DOMAIN pending /\ got[c] = <<>>

\* a call timed out with no response for its id ever delivered
C8_Witness ==
    \E c \in Calls :
        /\ Returned(c) /\ result[c].kind = "timeout"
        /\ id[c] \notin Delivered

\* C9: a response whose id has no registered waiter is dropped (no call is
\* unblocked, the pending map and every channel stay as they are, the
\* receiver goes on), and a response for a call that timed out is never
\* received by another call.
C9_UnknownResponseDropped ==
    /\ [][HandleStep /\ RxIsResponse /\ RxID \notin DOMAIN pending
            => /\ rx' = "loop"
               /\ UNCHANGED <<pending, chans, pc, got, result, deliveredLog, mu>>]_vars
    /\ [](\A c, d \in Calls :
            Returned(c) /\ result[c].kind = "timeout" /\ c # d /\ got[d] # <<>>
                => got[d][1].ID # id[c])

\* the late response of a timed-out call has been dropped while a later
\* call is parked
C9_Witness ==
    /\ rx = "loop"
    /\ handled = "dropped"
    /\ \E c, d \in Calls :
          /\ Returned(c) /\ result[c].kind = "timeout" /\ id[c] = RxID
          /\ id[d] > id[c] /\ pc[d] = "parked"

\* C10: SendCommand returns a result only for a delivered frame without an
\* error field; for a frame with an error field it returns the error built
\* from that code and message, and no result.
C10_SuccessImpliesNoError ==
    \A c \in Calls :
        Returned(c) =>
            /\ result[c].kind = "result"
                  => /\ got[c] # <<>>
                     /\ got[c][1].Error = <<>>
                     /\ result[c].value = got[c][1].Result
            /\ got[c] # <<>> /\ got[c][1].Error # <<>>
                  => /\ result[c].kind = "remote"
                     /\ result[c].value = <<"CDP error", got[c][1].Error[1].Message,
                                            got[c][1].Error[1].Code>>

\* one call got a frame carrying both a result and an error, another a
\* plain result
C10_Witness ==
    \E c, d \in Calls :
        /\ Returned(c) /\ result[c].kind = "remote"
        /\ got[c][1].Result # <<>>
        /\ Returned(d) /\ result[d].kind = "result"

\* C11 (as claimed): a SendCommand call started after readLoop returned on a
\* read error, with Close never called before it started, fails with
\* "client closed" (a call whose params cannot be marshalled aside).
C11_AsClaimed ==
    \A c \in Calls :
        rxDeadAtCall[c] /\ Returned(c) /\ result[c].kind # "marshal"
        => result[c].kind = "closed"

\* C12 (as claimed): a SendCommand call started after Close has completed
\* returns "client closed" without parking in its select (so without waiting
\* for the timer) and leaves no entry of its own in the pending map (a call
\* whose params cannot be marshalled aside).
C12_AsClaimed ==
    \A c \in Calls :
        pc[c] # "init" /\ ~preClose[c]
        => /\ pc[c] \notin {"parked", "case_timeout"}
           /\ Returned(c) /\ result[c].kind # "marshal"
                 => /\ result[c].kind = "closed"
                    /\ id[c] \notin DOMAIN pending

\* C13: however many Close calls are made, the body given to closeOnce.Do
\* starts at most once and c.conn.Close() runs at most once; a Close call
\* made after the body has finished changes nothing.
C13_CloseOneShot ==
    /\ closeRuns <= 1
    /\ connCloses <= 1
    /\ closeRuns = 0 <=> closeState = "open"

\* the body ran to its end and a further Close call can be made
C13_Witness ==
    /\ closeState = "done"
    /\ closeRuns = 1
    /\ connCloses = 1
    /\ ENABLED CloseAgain

\* the Session a registered id stands for
SessionOf(sid) == sessionObjs[sessions[sid]]
\* the ids registered for the process on a port
SessionsOn(port) == {sid \in DOMAIN sessions : SessionOf(sid).ProcessPort = port}

\* C14: once DestroySession(s) has returned nil, GetSession(s) returns
\* "session not found" (GET: 404), s is not among ListSessions, and a further
\* DestroySession(s) finds no session, which is the branch that returns
\* "session not found" (DELETE: 404, the first call: 204) before any browser
\* command and any write.
C14_DestroyedStaysGone ==
    \A sid \in destroyedOK :
        /\ GetSession(sid).err = NotFound
        /\ GetSession(sid).status = 404
        /\ sid \notin ListSessions
        /\ DestroyLookup(sessions, sid) = <<NotFound>>
        /\ DestroyStatus(DestroyLookup(sessions, sid)[1]) = 404
        /\ DestroyStatus("") = 204

\* one session destroyed, another still registered
C14_Witness ==
    /\ destroyedOK # {}
    /\ DOMAIN sessions # {}
    /\ mmu = 0

\* C15: once DestroySession(s) has returned nil, the browser holds neither
\* the context of s nor any target inside it (the pages of s are targets of
\* that context), whether or not a CloseTarget of the loop failed.
C15_DestroyedLeavesNothing ==
    \A sid \in destroyedOK : \A p \in Ports :
        /\ sid \notin browserContexts[p]
        /\ \A t \in DOMAIN browserTargets[p] : browserTargets[p][t] # sid

\* a session was destroyed although a CloseTarget of its loop had failed
C15_Witness ==
    /\ closeErrs # {}
    /\ closeErrs \subseteq destroyedOK

\* C16 (as claimed): the session counter of the process on each port is not
\* negative and equals the number of sessions registered for that port.
C16_AsClaimed ==
    \A p \in Ports :
        /\ sessionCount[p] >= 0
        /\ sessionCount[p] = Cardinality(SessionsOn(p))

\* C17: the client a registered session holds is the client registered in
\* cdpClients for the session's port.
C17_SessionClientIsPortClient ==
    \A sid \in DOMAIN sessions :
        /\ SessionOf(sid).ProcessPort \in DOMAIN cdpClients
        /\ cdpClients[SessionOf(sid).ProcessPort] = SessionOf(sid).CDPClient

\* two sessions registered on one port share the client registered for it
C17_Witness ==
    \E p \in Ports :
        /\ Cardinality(SessionsOn(p)) >= 2
        /\ \A sid \in SessionsOn(p) : SessionOf(sid).CDPClient = cdpClients[p]

\* C18: two different registered sessions on one port have different context
\* ids and no page id in common (the browser's ids being fresh).
C18_SessionsDisjoint ==
    \A a, b \in DOMAIN sessions :
        a # b /\ SessionOf(a).ProcessPort = SessionOf(b).ProcessPort
        => /\ SessionOf(a).ContextID # SessionOf(b).ContextID
           /\ Range(SessionOf(a).PageIDs) \cap Range(SessionOf(b).PageIDs) = {}

\* two sessions on one port, each with a page
C18_Witness ==
    \E a, b \in DOMAIN sessions :
        /\ a # b
        /\ SessionOf(a).ProcessPort = SessionOf(b).ProcessPort
        /\ SessionOf(a).PageIDs # <<>>
        /\ SessionOf(b).PageIDs # <<>>

\* C19 (as claimed): while no manager call is under way, every page id in the
\* list of a registered session is an open target of that session's context.
C19_AsClaimed ==
    mmu = 0 =>
        \A sid \in DOMAIN sessions :
            LET s == SessionOf(sid)
            IN  \A pageID \in Range(s.PageIDs) :
                    /\ pageID \in DOMAIN browserTargets[s.ProcessPort]
                    /\ browserTargets[s.ProcessPort][pageID] = s.ContextID

\* C20: a CreateSession that fails at context creation adds no session and
\* leaves the port's client registered; no CreateSession replaces a registered
\* client, so the next one on that port is served by the same client.
C20_ContextFailureKeepsClient ==
    /\ [](\A p \in Ports : ctxFailed[p] # "no" => p \in DOMAIN cdpClients)
    /\ [][(\E p \in Ports : ctxFailed'[p] = "failed" /\ ctxFailed[p] # "failed")
            => sessions' = sessions]_vars
    /\ [][nextSession' # nextSession
            => \A p \in DOMAIN cdpClients :
                  /\ p \in DOMAIN cdpClients'
                  /\ cdpClients'[p] = cdpClients[p]]_vars

\* after the failure a session was created on the port, with the port's client
C20_Witness ==
    \E p \in Ports :
        /\ ctxFailed[p] = "served"
        /\ p \in DOMAIN cdpClients
        /\ \E sid \in SessionsOn(p) : SessionOf(sid).CDPClient = cdpClients[p]

\* C21: no browser command is in progress while m.mu is held.  A worker at
\* "destroy" is inside DestroySession, at a CloseTarget or at the
\* DisposeBrowserContext round trip.
C21_AsClaimed ==
    \A w \in Workers : wpc[w] = "destroy" => mmu # w

\* C22: once DestroySession(s) has returned nil, no per-session operation
\* issues a command for s or adds a page to it any more, also one that looked
\* s up before: no Navigate finishes its CreateTarget on a destroyed session.
C22_AsClaimed ==
    [][\A w \in Workers :
          (wpc[w] = "navigate" /\ wpc'[w] = "idle")
              => sessionObjs[wsid[w]].ID \notin destroyedOK]_vars

SumCounts(f) == LET RECURSIVE Sum(_)
                    Sum(S) == IF S = {} THEN 0
                              ELSE LET x == CHOOSE y \in S : TRUE
                                   IN  f[x] + Sum(S \ {x})
                IN  Sum(DOMAIN f)

\* C23: every CreateSession call that succeeds adds one session to those
\* registered, replacing none, with a context id no registered session has,
\* and the session counters of the processes sum to one more than before.
C23_AsClaimed ==
    [][(nextSession' = nextSession + 1 /\ sessions' # sessions) =>
          /\ DOMAIN sessions \subseteq DOMAIN sessions'
          /\ \A sid \in DOMAIN sessions : sessions'[sid] = sessions[sid]
          /\ Cardinality(DOMAIN sessions') = Cardinality(DOMAIN sessions) + 1
          /\ \A a, b \in DOMAIN sessions' :
                a # b => sessionObjs'[sessions'[a]].ContextID
                            # sessionObjs'[sessions'[b]].ContextID
          /\ SumCounts(sessionCount') = SumCounts(sessionCount) + 1]_vars

\* C24: a Manager.Close leaves both maps empty, so that GetSession finds no id
\* and the session count is 0, and every client that was registered closed;
\* with both maps empty already it changes nothing.
C24_CloseEmptiesManager ==
    [][\A w \in Workers : ManagerClose(w) =>
          /\ sessions' = <<>>
          /\ cdpClients' = <<>>
          /\ \A sid \in SessionIDs : ~SessionExists(sessions', sid)
          /\ Cardinality(DOMAIN sessions') = 0
          /\ \A c \in Range(cdpClients) :
                c \in DOMAIN clientObjs' => clientObjs'[c].closed
          /\ (sessions = <<>> /\ cdpClients = <<>>) =>
                UNCHANGED <<sessions, cdpClients, sessionObjs, clientObjs,
                            browserContexts, browserTargets>>]_vars

\* a Manager.Close has closed a client that a running call still holds, and
\* the maps are empty
C24_Witness ==
    /\ sessions = <<>>
    /\ cdpClients = <<>>
    /\ \E c \in DOMAIN clientObjs : clientObjs[c].closed

\* ------------------------------------------------------------ Session.RemovePage
\* the index of the first element equal to pageID, 0 when there is none: the
\* range loop with its break
FirstIndex(list, pageID) ==
    IF \E i \in 1..Len(list) : list[i] = pageID
    THEN MinOf({i \in 1..Len(list) : list[i] = pageID})
    ELSE 0

\* Session.RemovePage: s.PageIDs[i] = s.PageIDs[len-1]; s.PageIDs =
\* s.PageIDs[:len-1] at the first i with s.PageIDs[i] == pageID
RemovePage_removeAll(list, pageID) == SelectSeq(list, LAMBDA x : x # pageID)
RemovePage(list, pageID) ==
    LET i == FirstIndex(list, pageID)
        n == Len(list)
    IN  IF i = 0 THEN list
        ELSE SubSeq([list EXCEPT ![i] = list[n]], 1, n - 1)

RemovePageCall ==
    /\ rmPC = "call"
    /\ rmList' = RemovePage(rmList, rmPage)
    /\ rmPC' = "returned"
    /\ UNCHANGED <<rmPage, rmIn>>
    /\ UNCHANGED <<cdpVars, mgrVars, opVars, poolVars, cacheVars, lockVars>>

ListNext == RemovePageCall

\* Session.RemovePage on every page list and page id within the bounds
ListSpecInit == CdpInit /\ MgrInit /\ OpInit /\ PoolInit /\ ListInit /\ NoAnalysis /\ NoGoroutines
ListSpec == ListSpecInit /\ [][ListNext]_vars

\* the list without its i-th element, the others in their order
WithoutIndex(list, i) == SubSeq(list, 1, i - 1) \o SubSeq(list, i + 1, Len(list))

\* how many times x is listed
Occurrences(list, x) == Cardinality({i \in 1..Len(list) : list[i] = x})

\* C29 as stated: removing a listed page deletes its one occurrence and keeps
\* the other ids in their order; removing an unlisted page changes nothing.
C29_AsClaimed ==
    rmPC = "returned" =>
        IF Occurrences(rmIn, rmPage) = 0 THEN rmList = rmIn
        ELSE Occurrences(rmIn, rmPage) = 1 =>
                rmList = WithoutIndex(rmIn, FirstIndex(rmIn, rmPage))

\* C29 amended: removing a listed page p leaves the list one shorter, with its
\* last id in the place of the first p and the ids before and after that
\* place as they were, so that every other id is listed as often as before
\* (their order is kept only when p was last or next to last); removing an
\* unlisted page changes nothing.
C29_RemoveSwapsLast ==
    rmPC = "returned" =>
        LET i == FirstIndex(rmIn, rmPage)
            n == Len(rmIn)
        IN  IF i = 0 THEN rmList = rmIn
            ELSE /\ Len(rmList) = n - 1
                 /\ \A k \in 1..(n - 1) :
                        rmList[k] = IF k = i THEN rmIn[n] ELSE rmIn[k]
                 /\ \A x \in PageUniverse :
                        Occurrences(rmList, x) =
                            Occurrences(rmIn, x) - (IF x = rmPage THEN 1 ELSE 0)

\* a page that is not the last one was removed from a list of three
C29_Witness ==
    /\ rmPC = "returned"
    /\ Len(rmIn) = 3
    /\ FirstIndex(rmIn, rmPage) = 1
    /\ rmList = <<rmIn[3], rmIn[2]>>

\* ------------------------------------------------------------ per-session operations
\* Navigate, ExecuteJavascript, CaptureScreenshot, GetPageContent and
\* ClosePage of the manager, with the handlers that call them.  Each looks the
\* session up with GetSession and works on the *Session without m.mu; Session
\* has no lock, so AddPage and RemovePage read s.PageIDs and write it back in
\* two steps that other goroutines' steps can come between.
PageOps == {"execute", "screenshot", "content", "close"}
SessionOps == {"navigate"} \cup PageOps

\* fmt.Errorf("session not found: %s", sessionID), as a sequence of its parts
SessionNotFoundText(sid) == <<"session not found: ", sid>>
\* the manager's operations wrap it: "failed to get session: %w"
FailedToGetSession(err) == <<"failed to get session: ">> \o err
PageNotFoundText(pageID) == <<"page not found in session: ", pageID>>
CommandFailedText == <<"command failed">>

\* the manager's test whether the page is in the session
PageInSession(s, pageID) == \E i \in 1..Len(s.PageIDs) : s.PageIDs[i] = pageID

\* the error code a handler gives an error that is no not-found error
FailCode(op) ==
    CASE op = "navigate" -> "ErrCodeNavigationFailed"
      [] op = "execute" -> "ErrCodeExecutionFailed"
      [] op = "screenshot" -> "ErrCodeScreenshotFailed"
      [] OTHER -> "ErrCodeInternalError"

\* Handlers.Navigate, ExecuteJS, CaptureScreenshot, GetPageContent, ClosePage
\* after the manager's call: the status and error code they write
HandlerResponse_pageIs500(op, err, sessionID, pageID) ==
    IF err = <<>>
    THEN [status |-> IF op = "close" THEN 204 ELSE 200, code |-> ""]
    ELSE IF err = <<"failed to get session: ", "session not found: ">> \o <<sessionID>>
    THEN [status |-> 404, code |-> "ErrCodeSessionNotFound"]
    ELSE [status |-> 500, code |-> FailCode(op)]
HandlerResponse(op, err, sessionID, pageID) ==
    IF err = <<>>
    THEN [status |-> IF op = "close" THEN 204 ELSE 200, code |-> ""]
    ELSE IF err = <<"failed to get session: ", "session not found: ">> \o <<sessionID>>
    THEN [status |-> 404, code |-> "ErrCodeSessionNotFound"]
    ELSE IF op \in PageOps /\ err = <<"page not found in session: ">> \o <<pageID>>
    THEN [status |-> 404, code |-> "ErrCodePageNotFound"]
    ELSE [status |-> 500, code |-> FailCode(op)]

\* a finished request: the operation, whether the session was found and the
\* page was in its list, the commands the call sent to the browser, and the
\* response the handler wrote for the manager's error
Finished(op, sid, pageID, found, listed, err, sent) ==
    [op |-> op, found |-> found, listed |-> listed, sent |-> sent,
     resp |-> HandlerResponse(op, err, sid, pageID)]

\* the manager after one CreateSession(9222) has succeeded
OneSession ==
    /\ sessions = <<1>>
    /\ cdpClients = MapPut(<<>>, 9222, 1)
    /\ mmu = 0
    /\ sessionObjs = <<NewSession(1, 9222, 1, 1)>>
    /\ clientObjs = <<[port |-> 9222, closed |-> FALSE]>>
    /\ sessionCount = [p \in Ports |-> 0]
    /\ browserContexts = [p \in Ports |-> IF p = 9222 THEN {1} ELSE {}]
    /\ browserTargets = [p \in Ports |-> <<>>]
    /\ nextSession = 1
    /\ nextTarget = 0
    /\ wpc = [w \in Workers |-> "idle"]
    /\ wsid = [w \in Workers |-> 0]
    /\ wleft = [w \in Workers |-> <<>>]
    /\ werr = [w \in Workers |-> FALSE]
    /\ destroyedOK = {}
    /\ closeErrs = {}
    /\ ctxFailed = [p \in Ports |-> "no"]
    /\ connFailed = {}

TakesOp(w) ==
    /\ opc[w] = "idle"
    /\ \A v \in Workers : v < w => opc[v] # "idle"

HeldSession(w) == sessionObjs[oarg[w].session]
HeldPort(w) == clientObjs[HeldSession(w).CDPClient].port

\* A request arrives and the manager's method runs up to its first browser
\* command: GetSession, and for the operations on a page the test that the
\* page is in the session.
OpBegin(w, op, sid, pageID) ==
    /\ TakesOp(w)
    /\ mmu = 0
    /\ op = "navigate" => pageID = 1
    /\ LET g == GetSession(sid)
           found == g.err = ""
           listed == /\ found
                     /\ op \in PageOps
                     /\ pageID \in Range(sessionObjs[g.session].PageIDs)
       IN  IF ~found
           THEN /\ oret' =
                       Finished(op, sid, pageID, found, listed,
                                FailedToGetSession(SessionNotFoundText(sid)), 0)
                /\ UNCHANGED <<opc, oarg>>
           ELSE IF op \in PageOps /\ ~PageInSession(sessionObjs[g.session], pageID)
           THEN /\ oret' =
                       Finished(op, sid, pageID, found, listed,
                                PageNotFoundText(pageID), 0)
                /\ UNCHANGED <<opc, oarg>>
           ELSE /\ opc' = [opc EXCEPT ![w] =
                              IF op = "navigate" THEN "create" ELSE "command"]
                /\ oarg' = [oarg EXCEPT ![w] =
                              [op |-> op, sid |-> sid, page |-> pageID,
                               session |-> g.session, listed |-> listed]]
                /\ UNCHANGED oret
    /\ UNCHANGED <<oread, returned, removed>>
    /\ UNCHANGED <<cdpVars, mgrVars, listVars, poolVars, cacheVars, lockVars>>

\* Navigate: CreateTarget(url, s.ContextID); an error is returned.
OpCreateTarget(w, out) ==
    /\ opc[w] = "create"
    /\ LET a == oarg[w]
           t == nextTarget + 1
       IN  IF out = "ok"
           THEN /\ nextTarget < MaxTargets
                /\ nextTarget' = t
                /\ browserTargets' =
                     [browserTargets EXCEPT
                         ![HeldPort(w)] = MapPut(@, t, HeldSession(w).ContextID)]
                /\ oarg' = [oarg EXCEPT ![w].page = t]
                /\ opc' = [opc EXCEPT ![w] = "add_read"]
                /\ UNCHANGED oret
           ELSE /\ oret' =
                       Finished(a.op, a.sid, a.page, TRUE, a.listed, CommandFailedText, 1)
                /\ opc' = [opc EXCEPT ![w] = "idle"]
                /\ oarg' = [oarg EXCEPT ![w] = NoRequest]
                /\ UNCHANGED <<nextTarget, browserTargets>>
    /\ UNCHANGED <<oread, returned, removed>>
    /\ UNCHANGED <<sessions, cdpClients, mmu, sessionObjs, clientObjs,
                   sessionCount, browserContexts, nextSession, wpc, wsid, wleft,
                   werr, destroyedOK, closeErrs, ctxFailed,
                   connFailed>>
    /\ UNCHANGED <<cdpVars, listVars, poolVars, cacheVars, lockVars>>

\* s.AddPage(targetID), first half: append reads s.PageIDs
AddPageRead(w) ==
    /\ opc[w] = "add_read"
    /\ oread' = [oread EXCEPT ![w] = HeldSession(w).PageIDs]
    /\ opc' = [opc EXCEPT ![w] = "add_write"]
    /\ UNCHANGED <<oarg, oret, returned, removed>>
    /\ UNCHANGED <<cdpVars, mgrVars, listVars, poolVars, cacheVars, lockVars>>

\* second half: the slice with the id appended is stored in s.PageIDs, and
\* Navigate returns the id
AddPageWrite(w) ==
    /\ opc[w] = "add_write"
    /\ LET a == oarg[w]
           s == [HeldSession(w) EXCEPT !.PageIDs = oread[w]]
       IN  /\ sessionObjs' = [sessionObjs EXCEPT ![a.session] = AddPage(s, a.page)]
           /\ returned' = returned \cup {a.page}
           /\ oret' =
                  Finished(a.op, a.sid, a.page, TRUE, a.listed, <<>>, 1)
    /\ opc' = [opc EXCEPT ![w] = "idle"]
    /\ oarg' = [oarg EXCEPT ![w] = NoRequest]
    /\ oread' = [oread EXCEPT ![w] = <<>>]
    /\ UNCHANGED removed
    /\ UNCHANGED <<sessions, cdpClients, mmu, clientObjs, sessionCount,
                   browserContexts, browserTargets, nextSession, nextTarget, wpc,
                   wsid, wleft, werr, destroyedOK, closeErrs, ctxFailed,
                   connFailed>>
    /\ UNCHANGED <<cdpVars, listVars, poolVars, cacheVars, lockVars>>

\* The command of an operation on a page: Runtime.evaluate,
\* Page.captureScreenshot, DOM.getOuterHTML, or Target.closeTarget, which the
\* browser can carry out only on a target it has.  An error is returned; after
\* a closed target ClosePage goes on to s.RemovePage.
OpCommand(w, out) ==
    /\ opc[w] = "command"
    /\ LET a == oarg[w]
           did == a.op = "close" /\ BrowserDid(out)
       IN  /\ (out = "ok" \/ did) => a.page \in DOMAIN browserTargets[HeldPort(w)]
           /\ a.op # "close" => out # "lost"
           /\ browserTargets' =
                IF did
                THEN [browserTargets EXCEPT ![HeldPort(w)] = MapDelete(@, a.page)]
                ELSE browserTargets
           /\ IF a.op = "close" /\ out = "ok"
              THEN /\ opc' = [opc EXCEPT ![w] = "rm_read"]
                   /\ UNCHANGED <<oarg, oret>>
              ELSE /\ oret' =
                          Finished(a.op, a.sid, a.page, TRUE, a.listed,
                                   IF out = "ok" THEN <<>> ELSE CommandFailedText, 1)
                   /\ opc' = [opc EXCEPT ![w] = "idle"]
                   /\ oarg' = [oarg EXCEPT ![w] = NoRequest]
    /\ UNCHANGED <<oread, returned, removed>>
    /\ UNCHANGED <<sessions, cdpClients, mmu, sessionObjs, clientObjs,
                   sessionCount, browserContexts, nextSession, nextTarget, wpc,
                   wsid, wleft, werr, destroyedOK, closeErrs, ctxFailed,
                   connFailed>>
    /\ UNCHANGED <<cdpVars, listVars, poolVars, cacheVars, lockVars>>

\* s.RemovePage(pageID), first half: the loop reads s.PageIDs
RemovePageRead(w) ==
    /\ opc[w] = "rm_read"
    /\ oread' = [oread EXCEPT ![w] = HeldSession(w).PageIDs]
    /\ opc' = [opc EXCEPT ![w] = "rm_write"]
    /\ UNCHANGED <<oarg, oret, returned, removed>>
    /\ UNCHANGED <<cdpVars, mgrVars, listVars, poolVars, cacheVars, lockVars>>

\* second half: the shortened slice is stored in s.PageIDs, and ClosePage
\* returns nil
RemovePageWrite(w) ==
    /\ opc[w] = "rm_write"
    /\ LET a == oarg[w]
       IN  /\ sessionObjs' =
                [sessionObjs EXCEPT ![a.session].PageIDs = RemovePage(oread[w], a.page)]
           /\ removed' = removed \cup {a.page}
           /\ oret' =
                  Finished(a.op, a.sid, a.page, TRUE, a.listed, <<>>, 1)
    /\ opc' = [opc EXCEPT ![w] = "idle"]
    /\ oarg' = [oarg EXCEPT ![w] = NoRequest]
    /\ oread' = [oread EXCEPT ![w] = <<>>]
    /\ UNCHANGED returned
    /\ UNCHANGED <<sessions, cdpClients, mmu, clientObjs, sessionCount,
                   browserContexts, browserTargets, nextSession, nextTarget, wpc,
                   wsid, wleft, werr, destroyedOK, closeErrs, ctxFailed,
                   connFailed>>
    /\ UNCHANGED <<cdpVars, listVars, poolVars, cacheVars, lockVars>>

\* the session ids requests name: the registered one and one that is not;
\* the page ids: those there can be, and one more
RequestSessions == {1, 2}
RequestPages == 1..(MaxTargets + 1)

OpNext ==
    \/ \E w \in Workers, op \in SessionOps, sid \in RequestSessions,
          pageID \in RequestPages : OpBegin(w, op, sid, pageID)
    \/ \E w \in Workers, out \in CreateOutcomes : OpCreateTarget(w, out)
    \/ \E w \in Workers : AddPageRead(w)
    \/ \E w \in Workers : AddPageWrite(w)
    \/ \E w \in Workers, out \in Outcomes : OpCommand(w, out)
    \/ \E w \in Workers : RemovePageRead(w)
    \/ \E w \in Workers : RemovePageWrite(w)

\* requests on the one session of a manager, and on sessions it has not
OpSpecInit == CdpInit /\ OneSession /\ NoListCall /\ PoolInit /\ OpInit /\ NoAnalysis /\ NoGoroutines
OpSpec == OpSpecInit /\ [][OpNext]_vars

\* C28: a request for an operation on a page that names an unknown session is
\* answered 404 with the session-not-found code, one that names a page the
\* session does not list 404 with the page-not-found code, and in both cases
\* the call has sent no command to the browser.
C28_NotFoundIs404 ==
    /\ (oret.op \in SessionOps /\ ~oret.found) =>
          /\ oret.resp = [status |-> 404, code |-> "ErrCodeSessionNotFound"]
          /\ oret.sent = 0
    /\ (oret.op \in PageOps /\ oret.found /\ ~oret.listed) =>
          /\ oret.resp = [status |-> 404, code |-> "ErrCodePageNotFound"]
          /\ oret.sent = 0

\* a session that lists a page was asked to run a script in another page
C28_Witness ==
    /\ oret.op = "execute"
    /\ oret.found
    /\ ~oret.listed
    /\ oret.resp.status = 404
    /\ sessionObjs[1].PageIDs # <<>>

\* C30: every page id a Navigate has returned is in the session's list, once,
\* until a ClosePage removes it, however the calls on the session overlap.
C30_AsClaimed ==
    \A p \in returned \ removed : Occurrences(sessionObjs[1].PageIDs, p) = 1

\* ------------------------------------------------------------ port pool, browser processes
\* The port pool and browser.Process (package browser), as main and
\* NewManagedProcess use them: NewProcess acquires a port and makes a scratch
\* directory, Start spawns the browser and on failure gives both back, Stop
\* gives both back once.  A crash ends the subprocess; the Process keeps its
\* port and directory until it is stopped.

\* acquire: the port leaves the pool
AcquirePort(pool, port) == pool \ {port}

\* release: the port is back in the pool
ReleasePort_drop(pool, port) == pool
ReleasePort(pool, port) == pool \cup {port}

\* browser.NewProcess: the Process with its port and scratch directory, not
\* started; NewManagedProcess wraps it with sessionCount 0
NewProc(port) ==
    [state |-> "new", port |-> port, alive |-> FALSE, sessionCount |-> 0,
     portReleases |-> 0, dirRemovals |-> 0]

\* the Process holds a port and a scratch directory
HoldsPort(p) == p.state # "stopped"

\* Stop gives the port and the directory back unless that was done before
StopReleases_always(p) == TRUE
StopReleases(p) == HoldsPort(p)

\* the Process after its port and directory were given back
Stopped(p) ==
    [p EXCEPT !.state = "stopped", !.alive = FALSE,
              !.portReleases = @ + 1, !.dirRemovals = @ + 1]

\* browser.NewProcess(path) as main calls it: an unusable binary or an empty
\* pool is an error and nothing is made (the port then plays no part)
NewProcess(valid, port) ==
    /\ Len(procs) < MaxProcs
    /\ IF valid /\ portPool # {}
       THEN /\ port \in portPool
            /\ portPool' = AcquirePort(portPool, port)
            /\ procs' = Append(procs, NewProc(port))
       ELSE /\ port = 9222
            /\ UNCHANGED <<portPool, procs>>
    /\ UNCHANGED placed
    /\ UNCHANGED <<cdpVars, mgrVars, listVars, opVars, cacheVars, lockVars>>

\* Process.Start: the subprocess runs, or it cannot be launched and the port
\* and the directory are given back before the error is returned
ProcessStart(i, spawns) ==
    /\ i \in DOMAIN procs
    /\ procs[i].state = "new"
    /\ IF spawns
       THEN /\ procs' = [procs EXCEPT ![i].state = "started", ![i].alive = TRUE]
            /\ UNCHANGED portPool
       ELSE /\ procs' = [procs EXCEPT ![i] = Stopped(@)]
            /\ portPool' = ReleasePort(portPool, procs[i].port)
    /\ UNCHANGED placed
    /\ UNCHANGED <<cdpVars, mgrVars, listVars, opVars, cacheVars, lockVars>>

\* NewManagedProcess: NewProcess, then Start, each error returned as it is
NewManagedProcess(valid, port, spawns) ==
    /\ Len(procs) < MaxProcs
    /\ IF valid /\ portPool # {}
       THEN /\ port \in portPool
            /\ IF spawns
               THEN /\ portPool' = AcquirePort(portPool, port)
                    /\ procs' = Append(procs, [NewProc(port) EXCEPT
                                                  !.state = "started",
                                                  !.alive = TRUE])
               ELSE /\ portPool' =
                         ReleasePort(AcquirePort(portPool, port), port)
                    /\ procs' = Append(procs, Stopped(NewProc(port)))
       ELSE /\ port = 9222
            /\ spawns
            /\ UNCHANGED <<portPool, procs>>
    /\ UNCHANGED placed
    /\ UNCHANGED <<cdpVars, mgrVars, listVars, opVars, cacheVars, lockVars>>

\* the browser crashes or is killed from outside
ProcessCrash(i) ==
    /\ i \in DOMAIN procs
    /\ procs[i].alive
    /\ procs' = [procs EXCEPT ![i].alive = FALSE]
    /\ UNCHANGED <<portPool, placed>>
    /\ UNCHANGED <<cdpVars, mgrVars, listVars, opVars, cacheVars, lockVars>>

\* Process.Stop, also through ManagedProcess.Stop: whatever state the
\* subprocess is in, the port and the directory are given back, once
ProcessStop(i) ==
    /\ i \in DOMAIN procs
    /\ IF StopReleases(procs[i])
       THEN /\ procs' = [procs EXCEPT ![i] = Stopped(@)]
            /\ portPool' = ReleasePort(portPool, procs[i].port)
       ELSE UNCHANGED <<portPool, procs>>
    /\ UNCHANGED placed
    /\ UNCHANGED <<cdpVars, mgrVars, listVars, opVars, cacheVars, lockVars>>

\* Handlers.CreateSession up to the manager's call: the port is the request's
\* browser_port, or with none (or no body) the port NewServer was given, which
\* is that of main's process
HandlerPort(reqPort, browserPort) ==
    IF reqPort = 0 THEN browserPort ELSE reqPort

PlaceSession(reqPort) ==
    /\ procs # <<>>
    /\ procs[1].state = "started"
    /\ placed' = HandlerPort(reqPort, procs[1].port)
    /\ UNCHANGED <<portPool, procs>>
    /\ UNCHANGED <<cdpVars, mgrVars, listVars, opVars, cacheVars, lockVars>>

PoolNext ==
    \/ \E valid \in BOOLEAN, port \in PortRange : NewProcess(valid, port)
    \/ \E i \in 1..MaxProcs, spawns \in BOOLEAN : ProcessStart(i, spawns)
    \/ \E valid \in BOOLEAN, port \in PortRange, spawns \in BOOLEAN :
          NewManagedProcess(valid, port, spawns)
    \/ \E i \in 1..MaxProcs : ProcessCrash(i)
    \/ \E i \in 1..MaxProcs : ProcessStop(i)
    \/ \E reqPort \in {0} \cup PortRange : PlaceSession(reqPort)

PoolSpecInit == CdpInit /\ MgrInit /\ NoListCall /\ OpInit /\ PoolInit /\ NoAnalysis /\ NoGoroutines
PoolSpec == PoolSpecInit /\ [][PoolNext]_vars

\* the processes that hold a port
Holders == {i \in DOMAIN procs : HoldsPort(procs[i])}

\* C25: the ports held by the processes not yet stopped and the ports in the
\* pool are the whole range, each port once: no two such processes hold the
\* same port, and a port is in the pool exactly when none holds it.
C25_PortsConserved ==
    /\ portPool \cup {procs[i].port : i \in Holders} = PortRange
    /\ \A i, j \in Holders : i # j => procs[i].port # procs[j].port
    /\ \A port \in PortRange :
          port \in portPool <=> ~\E i \in Holders : procs[i].port = port

\* a port was used, given back after a crash and is in use by a later
\* process, while the other port is in the pool
C25_Witness ==
    \E i, j \in DOMAIN procs :
        /\ i < j
        /\ procs[i].state = "stopped"
        /\ procs[j].state = "started"
        /\ procs[i].port = procs[j].port
        /\ portPool # {}

\* C26: a stopped process has given its port and its scratch directory back
\* exactly once, whether it was stopped, had crashed or never started, and
\* however often Stop was called; a process not stopped has given back nothing.
C26_ReleasedOnce ==
    \A i \in DOMAIN procs :
        LET n == IF procs[i].state = "stopped" THEN 1 ELSE 0
        IN  /\ procs[i].portReleases = n
            /\ procs[i].dirRemovals = n

\* all the processes there can be are stopped, and the pool is whole again
C26_Witness ==
    /\ Len(procs) = MaxProcs
    /\ \A i \in DOMAIN procs : procs[i].state = "stopped"
    /\ portPool = PortRange

\* the managed processes of the pool: the browsers that were started
Managed == {i \in DOMAIN procs : procs[i].state = "started"}

\* pick as the claim has it: of the managed processes with the least session
\* counter the one with the lowest port, or NoProcessAvailable
LeastLoaded ==
    IF Managed = {} THEN "NoProcessAvailable"
    ELSE LET least == MinOf({procs[i].sessionCount : i \in Managed})
         IN  MinOf({procs[i].port : i \in {j \in Managed :
                                              procs[j].sessionCount = least}})

\* C27: the port a session is placed on is the lowest port among the managed
\* processes with the least session counter, and placing changes no counter.
C27_AsClaimed ==
    [][placed' # placed =>
          /\ placed' = LeastLoaded
          /\ \A i \in DOMAIN procs : procs'[i].sessionCount = procs[i].sessionCount
      ]_vars

\* ------------------------------------------------------------ termination
\* The goroutines running SendCommand are scheduled fairly, every one of the
\* NumCalls calls is made, and the timer of time.After fires.  Nothing is
\* assumed of the browser, of readLoop or of Close.
CallsFair ==
    \A c \in Calls :
        /\ WF_vars(SendCommandCall(c))
        /\ WF_vars(\E m \in BOOLEAN : SendCommandRegister(c, m))
        /\ WF_vars(\E fails \in BOOLEAN : SendCommandWrite(c, fails))
        /\ WF_vars(SendCommandWriteFailed(c))
        /\ WF_vars(SendCommandSelect(c))
        /\ WF_vars(TimerFires(c))
        /\ WF_vars(SendCommandOnTimeout(c))

LiveSpec == Init /\ [][Next]_vars /\ CallsFair

\* C31 (as claimed): every SendCommand call that has been entered eventually
\* returns to its caller (a call unwound by a panic has not returned), and a
\* call parked in its select needs nothing but its timer to go on (it does
\* not wait for c.mu there).
C31_AsClaimed ==
    /\ \A c \in Calls :
          (pc[c] # "init") ~> (Returned(c) /\ result[c].kind # "panic")
    /\ [](\A c \in Calls : pc[c] = "parked" => ENABLED TimerFires(c))

\* what does hold: every call that has been entered comes to an end, by a
\* return or by that panic
C31_Terminates ==
    \A c \in Calls : (pc[c] # "init") ~> Returned(c)

\* ------------------------------------------------------------ waiter channels
\* C33: the receiver never blocks in handleResponse, so c.mu is never left
\* held: a waiter's channel has one slot and is sent to at most once, also
\* when its caller has timed out or returned without receiving.
C33_ReceiverNeverBlocks ==
    /\ rx # "blocked"
    /\ mu # "rx"
    /\ \A c \in Calls :
          /\ Len(chans[c].buf) <= 1
          /\ Cardinality({i \in DOMAIN deliveredLog : deliveredLog[i] = id[c]}) <= 1

\* a response went into the slot of a call whose timer had fired; the call
\* has returned the timeout error and the response stays in the channel
C33_Witness ==
    /\ rx = "loop"
    /\ handled = "delivered"
    /\ \E c \in Calls :
          /\ Returned(c) /\ result[c].kind = "timeout"
          /\ chans[c].buf # <<>>
          /\ RxID = id[c]

\* C34: no waiter channel is sent to once closed and none is closed twice: a
\* channel is closed only by Close and only while it is in the pending map,
\* and is sent to only by the receiver, while it is in the pending map and
\* open.
C34_ChannelsUsedWhilePending ==
    /\ [](rx # "panicked" /\ closeState # "panicked")
    /\ [][/\ \A c \in Calls :
               chans'[c].closed /\ ~chans[c].closed
                   => /\ closeState = "connclosed"
                      /\ closeState' = "done"
                      /\ c \in Range(pending)
          /\ deliveredLog' # deliveredLog
               => /\ HandleStep
                  /\ RxID \in DOMAIN pending
                  /\ ~chans[pending[RxID]].closed
                  /\ deliveredLog' = Append(deliveredLog, RxID)
          /\ \A c \in Calls :
               Len(chans'[c].buf) > Len(chans[c].buf)
                   => /\ HandleStep
                      /\ RxID \in DOMAIN pending
                      /\ pending[RxID] = c
         ]_vars

\* Close closed the channel of a call that was still pending, and a response
\* for that call's id came afterwards and was dropped
C34_Witness ==
    /\ closeState = "done"
    /\ rx = "loop"
    /\ handled = "dropped"
    /\ \E c \in Calls : chans[c].closed /\ id[c] = RxID

\* ------------------------------------------------------------ lazy connect
\* C35 (as claimed): discovery and Connect are performed at most once for a
\* port (no CreateSession performs them for a port for which they were
\* performed before), at most one client is registered for it, and every
\* session registered on the port has that client.
C35_AsClaimed ==
    /\ [][\A p \in Ports :
            (/\ ~ClientExists(cdpClients, p)
             /\ \E w \in Workers, connects \in BOOLEAN, out \in CreateOutcomes :
                   CreateSession(w, p, connects, out))
            => p \notin connFailed]_vars
    /\ [](\A sid \in DOMAIN sessions :
            /\ SessionOf(sid).ProcessPort \in DOMAIN cdpClients
            /\ SessionOf(sid).CDPClient = cdpClients[SessionOf(sid).ProcessPort])

\* C35 (amended): a CreateSession for a port that has a registered client
\* performs no discovery or Connect and leaves the registration as it is; a
\* client is registered only by a CreateSession for a port that has none; a
\* port with a failed attempt behind it has no client; and every session
\* registered on a port has the client registered for it.
C35_ConnectOnlyWhenUnregistered ==
    /\ [][\A p \in Ports :
            (/\ ClientExists(cdpClients, p)
             /\ \E w \in Workers, connects \in BOOLEAN, out \in CreateOutcomes :
                   CreateSession(w, p, connects, out))
            => /\ cdpClients' = cdpClients
               /\ clientObjs' = clientObjs
               /\ connFailed' = connFailed]_vars
    /\ [][\A p \in DOMAIN cdpClients' :
            (p \in DOMAIN cdpClients => cdpClients'[p] # cdpClients[p])
            => /\ p \notin DOMAIN cdpClients
               /\ nextSession' = nextSession + 1
               /\ DOMAIN cdpClients' = DOMAIN cdpClients \cup {p}]_vars
    /\ [](connFailed \cap DOMAIN cdpClients = {})
    /\ [](\A sid \in DOMAIN sessions :
            \A p \in Ports :
                SessionOf(sid).ProcessPort = p
                => ClientExists(cdpClients, p)
                   /\ cdpClients[p] = SessionOf(sid).CDPClient)

\* two CreateSession calls for one port have made sessions: one client object
\* exists, and both sessions have it
C35_Witness ==
    \E p \in Ports :
        /\ Cardinality(SessionsOn(p)) >= 2
        /\ DOMAIN cdpClients = {p}
        /\ Cardinality(DOMAIN clientObjs) = 1
        /\ \A sid \in SessionsOn(p) : SessionOf(sid).CDPClient = cdpClients[p]

\* C36: the client registered for a port is neither removed nor replaced by
\* any step but Manager.Close, whatever has failed on that client since; and
\* a CreateSession whose discovery or Connect fails leaves both maps as they
\* are.
C36_RegistrationStable ==
    /\ [][(\A w \in Workers : ~ManagerClose(w))
            => \A p \in DOMAIN cdpClients :
                  /\ p \in DOMAIN cdpClients'
                  /\ cdpClients'[p] = cdpClients[p]]_vars
    /\ [][(\E w \in Workers, p \in Ports, out \in CreateOutcomes :
              CreateSession(w, p, FALSE, out))
            => /\ cdpClients' = cdpClients
               /\ sessions' = sessions]_vars

\* the client of a port is still registered after the only session on it was
\* destroyed, and a CreateSession for the other port has failed to connect
C36_Witness ==
    \E p \in Ports :
        /\ DOMAIN cdpClients = {p}
        /\ sessions = <<>>
        /\ destroyedOK # {}
        /\ connFailed = Ports \ {p}

\* C37: every session in m.sessions is active, and what GetSession and
\* ListSessions hand out is active at the lookup; a Session's status changes
\* only from active to closed, in the step of DestroySession that returns nil
\* and takes the session out of the map; no Session is ever expired.
C37_RegisteredSessionsActive ==
    /\ [](\A sid \in SessionIDs :
            GetSession(sid).err = ""
            => sessionObjs[GetSession(sid).session].Status = "active")
    /\ [](\A x \in ListSessions : sessionObjs[x].Status = "active")
    /\ [](\A x \in DOMAIN sessionObjs : sessionObjs[x].Status # "expired")
    /\ [][\A x \in DOMAIN sessionObjs \cap DOMAIN sessionObjs' :
            sessionObjs'[x].Status # sessionObjs[x].Status
            => /\ sessionObjs[x].Status = "active"
               /\ sessionObjs'[x].Status = "closed"
               /\ x \in destroyedOK' \ destroyedOK
               /\ x \in Range(sessions)
               /\ x \notin Range(sessions')]_vars

\* a destroyed session, closed, is still held by a Navigate call that looked
\* it up before, while another session is registered and active
C37_Witness ==
    /\ \E x \in DOMAIN sessionObjs :
          /\ sessionObjs[x].Status = "closed"
          /\ x \notin Range(sessions)
          /\ \E w \in Workers : wpc[w] = "navigate" /\ wsid[w] = x
    /\ \E sid \in DOMAIN sessions : SessionOf(sid).Status = "active"

\* ------------------------------------------------------------ page-analysis cache
\* analyzer executions in one run
MaxAnalyses == 2

\* the PageStructure the n-th execution of the analyzer yields for a page
\* (the pointer &structure is fresh each time), with structure.PageID set
Snapshot(targetID, n) == [PageID |-> targetID, analysis |-> n]

\* if s.pageAnalysisCache != nil { if cached, ok := ...[targetID]; ok {...} }
CacheLookup_miss(cache, targetID) == <<>>
CacheLookup(cache, targetID) ==
    IF cache # <<>> /\ targetID \in DOMAIN cache[1]
    THEN <<cache[1][targetID]>>
    ELSE <<>>

\* if s.pageAnalysisCache == nil { make }; s.pageAnalysisCache[targetID] = ...
StoreAnalysis(cache, targetID, structure) ==
    <<MapPut(IF cache = <<>> THEN <<>> ELSE cache[1], targetID, structure)>>

\* if s.pageAnalysisCache != nil { delete(s.pageAnalysisCache, pageID) }
DeleteAnalysis_all(cache, pageID) == IF cache = <<>> THEN cache ELSE << <<>> >>
DeleteAnalysis(cache, pageID) ==
    IF cache = <<>> THEN cache ELSE <<MapDelete(cache[1], pageID)>>

\* How the evaluation of the analyzer script can end: "ok" a result that
\* decodes into a PageStructure, "undecodable" a result that json.Marshal or
\* json.Unmarshal rejects, "fail" an error from the browser or the client.
ScriptOutcomes == {"ok", "undecodable", "fail"}

\* s.ExecuteJavascript(targetID, script): a page the session does not list
\* fails without a command; otherwise the script is sent to the browser.
ExecuteJavascript(s, targetID, out) ==
    IF ~PageInSession(s, targetID)
    THEN [sent |-> FALSE, err |-> TRUE]
    ELSE [sent |-> TRUE, err |-> out = "fail"]

\* Session.AnalyzePage(targetID), the whole call.
AnalyzePage(targetID, out) ==
    /\ LET hit == CacheLookup(analyzed.pageAnalysisCache, targetID)
           run == ExecuteJavascript(analyzed, targetID, out)
           n == analyses + 1
       IN  IF hit # <<>>
           THEN /\ lastCall' = [op |-> "analyze", page |-> targetID, ret |-> hit,
                                sent |-> FALSE]
                /\ UNCHANGED <<analyzed, analyses>>
           ELSE /\ run.sent => analyses < MaxAnalyses
                /\ analyses' = IF run.sent THEN n ELSE analyses
                /\ IF run.err \/ out = "undecodable"
                   THEN /\ lastCall' = [op |-> "analyze", page |-> targetID,
                                        ret |-> <<>>, sent |-> run.sent]
                        /\ UNCHANGED analyzed
                   ELSE /\ analyzed' =
                             [analyzed EXCEPT !.pageAnalysisCache =
                                 StoreAnalysis(@, targetID, Snapshot(targetID, n))]
                        /\ lastCall' = [op |-> "analyze", page |-> targetID,
                                        ret |-> <<Snapshot(targetID, n)>>,
                                        sent |-> TRUE]
    /\ UNCHANGED <<cdpVars, mgrVars, listVars, opVars, poolVars, lockVars>>

\* Session.InvalidatePageAnalysis(pageID)
InvalidatePageAnalysis(pageID) ==
    /\ analyzed' = [analyzed EXCEPT !.pageAnalysisCache = DeleteAnalysis(@, pageID)]
    /\ lastCall' = [op |-> "invalidate", page |-> pageID]
    /\ UNCHANGED analyses
    /\ UNCHANGED <<cdpVars, mgrVars, listVars, opVars, poolVars, lockVars>>

\* Session.InvalidateAllPageAnalysis(): a new, empty map
InvalidateAllPageAnalysis ==
    /\ analyzed' = [analyzed EXCEPT !.pageAnalysisCache = << <<>> >>]
    /\ lastCall' = [op |-> "invalidate_all"]
    /\ UNCHANGED analyses
    /\ UNCHANGED <<cdpVars, mgrVars, listVars, opVars, poolVars, lockVars>>

\* Session.AddPage(pageID) with the id of a target the browser has just
\* created: an id the Session does not know yet
AnalyzedAddPage(pageID) ==
    /\ ~PageInSession(analyzed, pageID)
    /\ CacheLookup(analyzed.pageAnalysisCache, pageID) = <<>>
    /\ analyzed' = AddPage(analyzed, pageID)
    /\ lastCall' = [op |-> "add", page |-> pageID]
    /\ UNCHANGED analyses
    /\ UNCHANGED <<cdpVars, mgrVars, listVars, opVars, poolVars, lockVars>>

\* Session.RemovePage(pageID), as the closing of a page calls it
AnalyzedRemovePage(pageID) ==
    /\ PageInSession(analyzed, pageID)
    /\ analyzed' = [analyzed EXCEPT !.PageIDs = RemovePage(@, pageID)]
    /\ lastCall' = [op |-> "remove", page |-> pageID]
    /\ UNCHANGED analyses
    /\ UNCHANGED <<cdpVars, mgrVars, listVars, opVars, poolVars, lockVars>>

CacheNext ==
    \/ \E p \in PageUniverse, out \in ScriptOutcomes : AnalyzePage(p, out)
    \/ \E p \in PageUniverse : InvalidatePageAnalysis(p)
    \/ InvalidateAllPageAnalysis
    \/ \E p \in PageUniverse : AnalyzedAddPage(p)
    \/ \E p \in PageUniverse : AnalyzedRemovePage(p)

\* a new Session and the calls made on it, one at a time
CacheSpec == Init /\ [][CacheNext]_vars

\* C38: AnalyzePage of a page with a cached snapshot returns that snapshot
\* and sends nothing to the browser; a successful AnalyzePage of a page
\* without one stores the snapshot it returns under that page, the other
\* entries staying; a failed AnalyzePage leaves the cache as it is.
C38_CacheHitAndStore ==
    [][\A p \in PageUniverse :
          (\E out \in ScriptOutcomes : AnalyzePage(p, out))
          => LET old == analyzed.pageAnalysisCache
                 new == analyzed'.pageAnalysisCache
                 cached == old # <<>> /\ p \in DOMAIN old[1]
             IN  /\ cached => /\ lastCall'.ret = <<old[1][p]>>
                              /\ ~lastCall'.sent
                              /\ analyses' = analyses
                              /\ new = old
                 /\ ~cached /\ lastCall'.ret # <<>>
                       => /\ new # <<>>
                          /\ p \in DOMAIN new[1]
                          /\ <<new[1][p]>> = lastCall'.ret
                          /\ lastCall'.ret[1].PageID = p
                          /\ \A q \in DOMAIN new[1] \ {p} :
                                old # <<>> /\ q \in DOMAIN old[1]
                                /\ new[1][q] = old[1][q]
                 /\ lastCall'.ret = <<>> => new = old
      ]_vars

\* a page analysed a second time has returned the snapshot of the first
\* analysis, with one analyzer execution in all
C38_Witness ==
    /\ lastCall.op = "analyze"
    /\ ~lastCall.sent
    /\ lastCall.ret = <<Snapshot(lastCall.page, 1)>>
    /\ analyses = 1

\* the pages that have a cached snapshot
CachedPages(s) ==
    IF s.pageAnalysisCache = <<>> THEN {} ELSE DOMAIN s.pageAnalysisCache[1]

\* C39: InvalidatePageAnalysis(p) takes p's entry out of the cache and leaves
\* every other entry and the page list as they are; InvalidateAllPageAnalysis
\* leaves the cache empty and the page list as it is; an AnalyzePage of a page
\* without an entry calls the analyzer again and returns no earlier snapshot.
C39_InvalidateFrame ==
    /\ [][\A p \in PageUniverse :
            InvalidatePageAnalysis(p)
            => /\ CachedPages(analyzed') = CachedPages(analyzed) \ {p}
               /\ \A q \in CachedPages(analyzed') :
                     analyzed'.pageAnalysisCache[1][q]
                         = analyzed.pageAnalysisCache[1][q]
               /\ analyzed'.PageIDs = analyzed.PageIDs]_vars
    /\ [][InvalidateAllPageAnalysis
            => /\ CachedPages(analyzed') = {}
               /\ analyzed'.PageIDs = analyzed.PageIDs]_vars
    /\ [][\A p \in PageUniverse :
            (/\ p \notin CachedPages(analyzed)
             /\ \E out \in ScriptOutcomes : AnalyzePage(p, out))
            => /\ PageInSession(analyzed, p) => lastCall'.sent /\ analyses' = analyses + 1
               /\ lastCall'.ret # <<>> => lastCall'.ret[1].analysis > analyses]_vars

\* one page's entry has just been invalidated, the page still listed, while
\* the other analysed page keeps its snapshot
C39_Witness ==
    /\ lastCall.op = "invalidate"
    /\ PageInSession(analyzed, lastCall.page)
    /\ analyses = 2
    /\ Cardinality(CachedPages(analyzed)) = 1
    /\ lastCall.page \notin CachedPages(analyzed)

\* C40 (as claimed): the pages with a cached snapshot are pages of the
\* session's page list.
C40_AsClaimed ==
    CachedPages(analyzed) \subseteq Range(analyzed.PageIDs)

\* ------------------------------------------------------------ lock order
\* The locks of the program are the Manager's m.mu, the Client's c.mu and
\* the Client's closeOnce, which blocks a second caller of Close until the
\* first has finished.  Every operation is reduced to the lock operations it
\* performs, in program order; "Wait" is the select of SendCommand, which
\* the response, the 10 s timer or the cancelled context always ends.

\* the most client commands one DestroySession sends (CloseTarget per page,
\* then DisposeBrowserContext)
MaxSends == 2

\* Client.SendCommand: register under c.mu, write, then wait; a failed write
\* and a timeout delete the pending entry under c.mu
SendCommandLocks(path) ==
    <<[op |-> "Lock", lock |-> "c"], [op |-> "Unlock", lock |-> "c"]>> \o
    CASE path = "writeFailed" ->
             <<[op |-> "Lock", lock |-> "c"], [op |-> "Unlock", lock |-> "c"]>>
      [] path = "timeout" ->
             <<[op |-> "Wait", lock |-> "c"],
               [op |-> "Lock", lock |-> "c"], [op |-> "Unlock", lock |-> "c"]>>
      [] OTHER -> <<[op |-> "Wait", lock |-> "c"]>>

\* the receiver's handleResponse as it would be if it consulted the Manager
HandleResponseLocks_callsManager ==
    <<[op |-> "Lock", lock |-> "c"],
      [op |-> "Lock", lock |-> "m"], [op |-> "Unlock", lock |-> "m"],
      [op |-> "Unlock", lock |-> "c"]>>

\* Client.handleResponse: c.mu from entry to return
HandleResponseLocks ==
    <<[op |-> "Lock", lock |-> "c"], [op |-> "Unlock", lock |-> "c"]>>

\* Client.Close: inside closeOnce, the pending map is emptied under c.mu
ClientCloseLocks ==
    <<[op |-> "Lock", lock |-> "closeOnce"],
      [op |-> "Lock", lock |-> "c"], [op |-> "Unlock", lock |-> "c"],
      [op |-> "Unlock", lock |-> "closeOnce"]>>

\* Manager.CreateSession: m.mu from entry to return; with a client it sends
\* Target.createBrowserContext ("noClient": the ID or the client failed)
CreateSessionLocks(path) ==
    <<[op |-> "Lock", lock |-> "m"]>> \o
    (IF path = "noClient" THEN <<>> ELSE SendCommandLocks(path)) \o
    <<[op |-> "Unlock", lock |-> "m"]>>

\* Manager.DestroySession: m.mu from entry to return; one command per page
\* and one for the context (no command: the session is unknown)
DestroySessionLocks(paths) ==
    LET RECURSIVE Sends(_)
        Sends(ps) == IF ps = <<>> THEN <<>>
                     ELSE SendCommandLocks(Head(ps)) \o Sends(Tail(ps))
    IN  <<[op |-> "Lock", lock |-> "m"]>> \o Sends(paths) \o
        <<[op |-> "Unlock", lock |-> "m"]>>

\* Manager.Close: m.mu from entry to return, closing the clients
ManagerCloseLocks ==
    <<[op |-> "Lock", lock |-> "m"]>> \o ClientCloseLocks \o
    <<[op |-> "Unlock", lock |-> "m"]>>

\* what a goroutine can run: the read loop handles responses, a request
\* handler calls the Manager or the Client
Programs(g) ==
    IF g = "readLoop" THEN {HandleResponseLocks}
    ELSE LET SendPaths == {"response", "writeFailed", "timeout", "closed"}
             Paths == UNION {[1..n -> SendPaths] : n \in 0..MaxSends}
         IN  {SendCommandLocks(p) : p \in SendPaths}
             \cup {CreateSessionLocks(p) : p \in SendPaths \cup {"noClient"}}
             \cup {DestroySessionLocks(ps) : ps \in Paths}
             \cup {ManagerCloseLocks, ClientCloseLocks}

\* a mutex is free for g when no other goroutine holds it
Available(l, g) ==
    \A h \in Goroutines \ {g} : l \notin Range(goroutines[h].held)

\* a goroutine enters an operation
GoBegin(g, program) ==
    /\ goroutines[g].todo = <<>>
    /\ program \in Programs(g)
    /\ goroutines' = [goroutines EXCEPT ![g].todo = program]
    /\ UNCHANGED <<cdpVars, mgrVars, listVars, opVars, poolVars, cacheVars>>

\* a goroutine performs its next lock operation; Lock waits for the mutex
GoStep(g) ==
    /\ goroutines[g].todo # <<>>
    /\ LET i == Head(goroutines[g].todo)
           held == goroutines[g].held
       IN  /\ i.op = "Lock" => Available(i.lock, g)
           /\ goroutines' = [goroutines EXCEPT
                  ![g].todo = Tail(@),
                  ![g].held = CASE i.op = "Lock" -> Append(held, i.lock)
                                [] i.op = "Unlock" ->
                                       SelectSeq(held, LAMBDA l : l # i.lock)
                                [] OTHER -> held]
    /\ UNCHANGED <<cdpVars, mgrVars, listVars, opVars, poolVars, cacheVars>>

LockNext ==
    \/ \E g \in Goroutines : \E program \in Programs(g) : GoBegin(g, program)
    \/ \E g \in Goroutines : GoStep(g)

LockSpec == Init /\ [][LockNext]_vars

\* C32: no goroutine takes m.mu while it holds c.mu (locks are taken in the
\* order m.mu, closeOnce, c.mu and never twice), and whenever some goroutine
\* is inside an operation some goroutine inside an operation can take its
\* next step: no interleaving of the operations stops with every one of
\* them waiting for a lock.
C32_LockOrder ==
    /\ \A g \in Goroutines :
          goroutines[g].held \in
              {<<>>, <<"m">>, <<"closeOnce">>, <<"c">>, <<"m", "c">>,
               <<"m", "closeOnce">>, <<"closeOnce", "c">>,
               <<"m", "closeOnce", "c">>}
    /\ (\E g \in Goroutines : goroutines[g].todo # <<>>)
          => \E g \in Goroutines :
                /\ goroutines[g].todo # <<>>
                /\ Head(goroutines[g].todo).op = "Lock"
                      => Available(Head(goroutines[g].todo).lock, g)

\* C32 (witness): a handler holds m.mu and c.mu together while the read
\* loop waits for c.mu and the other handler waits for m.mu.
C32_Witness ==
    /\ goroutines["handler1"].held = <<"m", "c">>
    /\ goroutines["readLoop"].todo # <<>>
    /\ Head(goroutines["readLoop"].todo) = [op |-> "Lock", lock |-> "c"]
    /\ goroutines["handler2"].todo # <<>>
    /\ Head(goroutines["handler2"].todo) = [op |-> "Lock", lock |-> "m"]
====
